---- MODULE Spec2Model ----
(***************************************************************************)
(* A model of the Seoul subway Telegram bot: the real-time arrival         *)
(* normaliser (subway_api.py), the schedule aggregator (timetable_api.py)  *)
(* and the handlers of bot.py that drive them.                             *)
(*                                                                         *)
(* Text is modelled as a sequence of one-character strings, so that        *)
(* substring tests, the station-count regular expression and the           *)
(* lexicographic order of time strings are computed, not assumed.  A       *)
(* Hangul syllable is written as its romanisation: "jeon" "yeok" is the    *)
(* two-character text jeonyeok (previous station), "beon" "jjae" is        *)
(* beonjjae (-th), "chul" "bal" chulbal (departed), "do" "chak" dochak     *)
(* (arrived), "dang" "yeok" dangyeok (this station), "jin" "ip" jinip      *)
(* (entering).  Line names and direction labels are romanised whole:       *)
(* "3hoseon", "sanghaeng", "hahaeng", "naeseon", "oeseon".                 *)
(***************************************************************************)
EXTENDS Integers, Sequences, FiniteSets, TLC

VARIABLES
    rankPc,     \* "idle" | "key" | "list": which normaliser operation has run
    rec,        \* the ArrivalInfo whose sort_key was read
    key,        \* the value sort_key returned for rec
    response,   \* the real-time provider's answer to get_realtime_arrivals
    results     \* the list get_realtime_arrivals returned

rankVars == <<rankPc, rec, key, response, results>>

VARIABLES
    routePc,    \* "idle" | "resolved" | "done": which route operation has run
    routeReq,   \* the arguments of find_common_line / query_route
    routeOut    \* what the operation came to

routeVars == <<routePc, routeReq, routeOut>>

VARIABLES
    ttPc,       \* "idle" | "fetched" | "upcoming": which schedule operation has run
    payload,    \* the schedule provider's answer to the fetch
    timetable,  \* the list get_timetable / get_timetable_kric returned
    now,        \* datetime.now(KST).strftime("%H:%M:%S") at the call of get_upcoming
    count,      \* the count argument of get_upcoming
    upcoming    \* the list get_upcoming returned

ttVars == <<ttPc, payload, timetable, now, count, upcoming>>

VARIABLES
    frCodeCache,  \* _fr_code_cache: (station_name, line_name or "") -> fr_code
    callPc,       \* per get_station_fr_code call: "idle" | "waiting" | "done" | "raised"
    callArgs,     \* per call: its station_name and line_name
    callResult    \* per call: the (fr_code, line) pair it returned, or None

cacheVars == <<callPc, callArgs, callResult>>

VARIABLES
    kricKey,    \* whether KRIC_API_KEY is configured
    handler,    \* the cmd_timetable invocation in progress, or the last one
    queries     \* how many /timetable commands have been handled or begun

handlerVars == <<kricKey, handler, queries>>

VARIABLES
    exchange,   \* one outbound call: the operation, its arguments, the provider's answer
    delivered   \* what the operation gave its caller: a value, or an exception

boundaryVars == <<exchange, delivered>>

VARIABLES
    instant,      \* the moment get_weekday_type is called: day and hour in UTC
    weekdayType   \* the (code, label) pair it returned

weekdayVars == <<instant, weekdayType>>

VARIABLES
    presetFiles,  \* PRESETS_DIR: for each user, the JSON file <user_id>.json
    presetCall    \* the last call of the preset store and what it returned

presetVars == <<presetFiles, presetCall>>

vars == <<rankVars, routeVars, ttVars, frCodeCache, cacheVars, handlerVars, boundaryVars, weekdayVars, presetVars>>

-----------------------------------------------------------------------------
(* Text helpers *)

None == "None"

Digits == {"0", "1", "2", "3", "4", "5", "6", "7", "8", "9"}

IsDigit(c) == c \in Digits

\* re's \s for the characters that occur in the modelled messages
IsSpace(c) == c \in {" ", "\t"}

DigitVal(c) ==
    CASE c = "0" -> 0 [] c = "1" -> 1 [] c = "2" -> 2 [] c = "3" -> 3
      [] c = "4" -> 4 [] c = "5" -> 5 [] c = "6" -> 6 [] c = "7" -> 7
      [] c = "8" -> 8 [] c = "9" -> 9

RECURSIVE IntOfDigits(_)
\* int() of a non-empty run of decimal digits
IntOfDigits(s) ==
    IF Len(s) = 0 THEN 0
    ELSE 10 * IntOfDigits(SubSeq(s, 1, Len(s) - 1)) + DigitVal(s[Len(s)])

\* sub occurs in s starting at position i
OccursAt(s, sub, i) ==
    /\ i >= 1
    /\ i + Len(sub) - 1 <= Len(s)
    /\ \A k \in 1..Len(sub) : s[i + k - 1] = sub[k]

\* Python's `sub in s` for strings
Contains(s, sub) == \E i \in 1..(Len(s) + 1) : OccursAt(s, sub, i)

-----------------------------------------------------------------------------
(* subway_api.py: the rank key *)

SecondsPerStation == 120

UnknownCount == 999

BEONJJAE == <<"beon", "jjae">>

JEONYEOK == <<"jeon", "yeok">>

JEONYEOK_CHULBAL == <<"jeon", "yeok", " ", "chul", "bal">>

JEONYEOK_DOCHAK == <<"jeon", "yeok", " ", "do", "chak">>

DANGYEOK_JINIP == <<"dang", "yeok", " ", "jin", "ip">>

DOCHAK == <<"do", "chak">>

RECURSIVE DigitRunEnd(_, _)
\* the last position of the run of digits that starts at i (greedy \d+)
DigitRunEnd(m, i) ==
    IF i + 1 <= Len(m) /\ IsDigit(m[i + 1]) THEN DigitRunEnd(m, i + 1) ELSE i

RECURSIVE SkipSpaces(_, _)
\* the first position at or after i that holds no white space (greedy \s*)
SkipSpaces(m, i) ==
    IF i <= Len(m) /\ IsSpace(m[i]) THEN SkipSpaces(m, i + 1) ELSE i

\* _STATION_COUNT_RE matches with its first character at position i
StationCountMatchAt(m, i) ==
    /\ i \in 1..Len(m)
    /\ IsDigit(m[i])
    /\ LET j == DigitRunEnd(m, i)
       IN  /\ OccursAt(m, BEONJJAE, j + 1)
           /\ OccursAt(m, JEONYEOK, SkipSpaces(m, j + 3))

\* _STATION_COUNT_RE.search(message): group(1) of the leftmost match, or the
\* empty sequence when there is no match (a match holds at least one digit)
StationCountSearch(m) ==
    LET starts == {i \in 1..Len(m) : StationCountMatchAt(m, i)}
    IN  IF starts = {} THEN <<>>
        ELSE LET i == CHOOSE p \in starts : \A q \in starts : p <= q
             IN  SubSeq(m, i, DigitRunEnd(m, i))

\* the arrival keywords tested before the previous-station keywords
ParseStationCount_ArrivalFirst(message) ==
    LET g == StationCountSearch(message)
    IN  IF g # <<>> THEN IntOfDigits(g)
        ELSE IF Contains(message, DANGYEOK_JINIP) \/ Contains(message, DOCHAK)
        THEN 0
        ELSE IF Contains(message, JEONYEOK_CHULBAL) \/ Contains(message, JEONYEOK_DOCHAK)
        THEN 1
        ELSE UnknownCount

\* a parser that does not know the "entering this station" keyword
ParseStationCount_EnteringUnknown(message) ==
    LET g == StationCountSearch(message)
    IN  IF g # <<>> THEN IntOfDigits(g)
        ELSE IF Contains(message, JEONYEOK_CHULBAL) \/ Contains(message, JEONYEOK_DOCHAK)
        THEN 1
        ELSE IF Contains(message, DOCHAK)
        THEN 0
        ELSE UnknownCount

\* the keyword tests tried before the station-count pattern
ParseStationCount_KeywordsFirst(message) ==
    LET g == StationCountSearch(message)
    IN  IF Contains(message, JEONYEOK_CHULBAL) \/ Contains(message, JEONYEOK_DOCHAK)
        THEN 1
        ELSE IF Contains(message, DANGYEOK_JINIP) \/ Contains(message, DOCHAK)
        THEN 0
        ELSE IF g # <<>> THEN IntOfDigits(g)
        ELSE UnknownCount

ParseStationCount(message) ==
    LET g == StationCountSearch(message)
    IN  IF g # <<>> THEN IntOfDigits(g)
        ELSE IF Contains(message, JEONYEOK_CHULBAL) \/ Contains(message, JEONYEOK_DOCHAK)
        THEN 1
        ELSE IF Contains(message, DANGYEOK_JINIP) \/ Contains(message, DOCHAK)
        THEN 0
        ELSE UnknownCount

SortKey(a) ==
    IF a.arrival_seconds > 0 THEN a.arrival_seconds
    ELSE ParseStationCount(a.arrival_message) * SecondsPerStation

-----------------------------------------------------------------------------
(* subway_api.py: get_realtime_arrivals *)

\* A JSON field of a provider row: a string, null, or absent
JStr(s) == [t |-> "str", v |-> s]

JNull == [t |-> "null", v |-> <<>>]

JMissing == [t |-> "missing", v |-> <<>>]

\* a JSON number, by the digits of its whole part
JNum(digits) == [t |-> "num", v |-> digits]

JTrue == [t |-> "bool", v |-> <<"1">>]

\* a non-empty JSON list
JList == [t |-> "list", v |-> <<>>]

\* a JSON number too large for a float
JOverflow == [t |-> "overflow", v |-> <<>>]

\* int(s) of a string: an optional sign and decimal digits; anything else raises
\* ValueError, which the caller turns into 0
IsIntLiteral(s) ==
    LET body == IF Len(s) > 0 /\ s[1] \in {"-", "+"} THEN Tail(s) ELSE s
    IN  Len(body) > 0 /\ \A k \in 1..Len(body) : IsDigit(body[k])

IntOfString(s) ==
    IF Len(s) > 0 /\ s[1] = "-" THEN 0 - IntOfDigits(Tail(s))
    ELSE IF Len(s) > 0 /\ s[1] = "+" THEN IntOfDigits(Tail(s))
    ELSE IntOfDigits(s)

\* int(item.get("barvlDt", "0") or "0") under try/except (ValueError, TypeError)
\* A JSON number carries its whole part (int() truncates), true is 1; a
\* non-empty list or object is a TypeError, which also gives 0.
ParseSeconds(raw) ==
    LET text == IF raw.t \in {"str", "num", "bool"} /\ raw.v # <<>> THEN raw.v ELSE <<"0">>
    IN  IF IsIntLiteral(text) THEN IntOfString(text) ELSE 0

\* int() of a float beyond every finite value (the JSON number 1e999, or the
\* literal Infinity the decoder accepts) raises OverflowError, which is neither
\* a ValueError nor a TypeError
SecondsRaises(raw) == raw.t = "overflow"

\* station_data.LINE_IDS: provider subwayId -> canonical line name
LINE_IDS ==
    [id \in {"1001", "1002", "1005"} |->
        CASE id = "1001" -> "1hoseon" [] id = "1002" -> "2hoseon" [] id = "1005" -> "5hoseon"]

LineNameOf(subway_id) ==
    IF subway_id \in DOMAIN LINE_IDS THEN LINE_IDS[subway_id] ELSE subway_id

\* the ArrivalInfo built from one provider row
ArrivalInfoOf(item) ==
    [line_name       |-> LineNameOf(item.subwayId),
     direction       |-> item.updnLine,
     destination     |-> item.bstatnNm,
     arrival_message |-> item.arvlMsg2,
     arrival_seconds |-> ParseSeconds(item.barvlDt)]

RECURSIVE InsertByKey_Unstable(_, _)
\* an insertion that puts x before the elements of equal key
InsertByKey_Unstable(sorted, x) ==
    IF sorted = <<>> THEN <<x>>
    ELSE IF SortKey(sorted[Len(sorted)]) < SortKey(x) THEN Append(sorted, x)
    ELSE Append(InsertByKey_Unstable(SubSeq(sorted, 1, Len(sorted) - 1), x),
                sorted[Len(sorted)])

RECURSIVE InsertByKey(_, _)
\* one step of a stable sort: x goes after every element whose key is <= its own
InsertByKey(sorted, x) ==
    IF sorted = <<>> THEN <<x>>
    ELSE IF SortKey(sorted[Len(sorted)]) <= SortKey(x) THEN Append(sorted, x)
    ELSE Append(InsertByKey(SubSeq(sorted, 1, Len(sorted) - 1), x), sorted[Len(sorted)])

RECURSIVE SortBySortKey(_)
\* results.sort(key=lambda a: a.sort_key): list.sort is stable
SortBySortKey(list) ==
    IF list = <<>> THEN <<>>
    ELSE InsertByKey(SortBySortKey(SubSeq(list, 1, Len(list) - 1)), list[Len(list)])

\* the loop over raw_list and the final sort
ParseArrivals(raw_list) ==
    SortBySortKey([i \in 1..Len(raw_list) |-> ArrivalInfoOf(raw_list[i])])

\* a normaliser that does not look at the error envelope
GetRealtimeArrivalsResult_EnvelopeIgnored(resp) ==
    IF resp.transport # "ok" THEN <<>>
    ELSE ParseArrivals(resp.realtimeArrivalList)

\* what the HTTP exchange of get_realtime_arrivals can come to: an exception
\* (network failure, timeout, undecodable body), a status other than 200, or a
\* decoded payload with an optional errorMessage envelope and the row list
GetRealtimeArrivalsResult(resp) ==
    IF resp.transport # "ok" THEN <<>>
    ELSE IF resp.errorStatus # None /\ resp.errorStatus # "200" THEN <<>>
    ELSE ParseArrivals(resp.realtimeArrivalList)

-----------------------------------------------------------------------------
(* The normaliser's inputs *)

MaxRows == 3

ProviderRow(msg, sec) ==
    [subwayId |-> "1002", updnLine |-> "naeseon", bstatnNm |-> "seongsu",
     arvlMsg2 |-> msg, barvlDt |-> sec]

\* status messages for single records: an optional lead, an optional digit run,
\* beonjjae, white space, jeonyeok, and a tail
KeyHeads ==
    { <<>>,
      <<"7", "bun", " ">>,
      <<"2", "beon", "jjae", "jeon", "yeok", " ">>,
      <<"dang", "yeok", " ">> }

KeyDigitRuns == { <<>>, <<"3">>, <<"1", "2">>, <<"3", "]">> }

KeyOrdinals == { <<>>, BEONJJAE }

KeyGaps == { <<>>, <<" ">>, <<" ", " ">> }

KeyStations == { <<>>, JEONYEOK }

KeyTails == { <<>>, <<" ", "chul", "bal">>, <<" ", "do", "chak">>, <<" ", "jin", "ip">>, <<"do", "chak">> }

KeyMessages ==
    { h \o d \o o \o g \o st \o t :
        h \in KeyHeads, d \in KeyDigitRuns, o \in KeyOrdinals,
        g \in KeyGaps, st \in KeyStations, t \in KeyTails }

KeySeconds == {0 - 5, 0, 45}

\* status messages and seconds fields for the rows of a list
ListMessages ==
    { JEONYEOK_CHULBAL, JEONYEOK_DOCHAK, DANGYEOK_JINIP,
      <<"2">> \o BEONJJAE \o <<" ">> \o JEONYEOK, <<"un", "haeng">> }

ListSeconds == { JStr(<<"0">>), JStr(<<"4", "5">>), JStr(<<"1", "2", "0">>) }

ProviderRows == { ProviderRow(m, sec) : m \in ListMessages, sec \in ListSeconds }

RECURSIVE SeqsUpTo(_, _)
\* the sequences over S of length at most n
SeqsUpTo(S, n) ==
    IF n = 0 THEN { <<>> }
    ELSE LET shorter == SeqsUpTo(S, n - 1)
         IN  shorter \cup { Append(q, x) : q \in {r \in shorter : Len(r) = n - 1}, x \in S }

Responses ==
    { [transport |-> "ok", errorStatus |-> e, realtimeArrivalList |-> l] :
        e \in {None, "200", "500"}, l \in SeqsUpTo(ProviderRows, MaxRows) }
    \cup
    { [transport |-> tr, errorStatus |-> None, realtimeArrivalList |-> <<>>] :
        tr \in {"exception", "status"} }

NoRecord == [arrival_seconds |-> 0, arrival_message |-> <<>>]

NoResponse == [transport |-> "none", errorStatus |-> None, realtimeArrivalList |-> <<>>]

RankInit ==
    /\ rankPc = "idle"
    /\ rec = NoRecord
    /\ key = 0
    /\ response = NoResponse
    /\ results = <<>>

\* ArrivalInfo.sort_key is read for one record
ReadSortKey ==
    /\ rankPc = "idle"
    /\ \E sec \in KeySeconds, m \in KeyMessages :
          /\ rec' = [arrival_seconds |-> sec, arrival_message |-> m]
          /\ key' = SortKey(rec')
    /\ rankPc' = "key"
    /\ UNCHANGED <<response, results, routeVars, ttVars, frCodeCache, cacheVars, handlerVars, boundaryVars, weekdayVars, presetVars>>

\* get_realtime_arrivals runs against one provider response
GetRealtimeArrivals ==
    /\ rankPc = "idle"
    /\ \E resp \in Responses :
          /\ response' = resp
          /\ results' = GetRealtimeArrivalsResult(resp)
    /\ rankPc' = "list"
    /\ UNCHANGED <<rec, key, routeVars, ttVars, frCodeCache, cacheVars, handlerVars, boundaryVars, weekdayVars, presetVars>>

RankNext == ReadSortKey \/ GetRealtimeArrivals

-----------------------------------------------------------------------------
(* station_data: the topology and the route resolver.  The module is not part
   of the sources at hand; it is modelled from sections 3 and 4.2 of the
   design document, on a small network with one line of each kind. *)

Lines == {"1hoseon", "2hoseon", "5hoseon"}

\* the preference order among candidate lines: ascending line number
LineNumber(l) == CASE l = "1hoseon" -> 1 [] l = "2hoseon" -> 2 [] l = "5hoseon" -> 5

\* LINEAR 1hoseon, CIRCULAR 2hoseon (a cycle of four), BRANCHED 5hoseon
LineKind(l) ==
    CASE l = "1hoseon" -> "LINEAR" [] l = "2hoseon" -> "CIRCULAR" [] l = "5hoseon" -> "BRANCHED"

\* the main Segment of a line, in increasing index order
MainSegment(l) ==
    CASE l = "1hoseon" -> <<"A", "B", "C", "D">>
      [] l = "2hoseon" -> <<"C", "E", "F", "G">>
      [] l = "5hoseon" -> <<"B", "C", "E", "I", "J">>

\* the branch Segments of a line; each starts at its junction station
BranchSegments(l) ==
    IF l = "5hoseon" THEN << <<"I", "K", "L">>, <<"E", "M">> >> ELSE <<>>

Stations == {"A", "B", "C", "D", "E", "F", "G", "I", "J", "K", "L", "M"}

\* segment 0 is the main Segment, segment b >= 1 the b-th branch
SegmentOf(l, seg) == IF seg = 0 THEN MainSegment(l) ELSE BranchSegments(l)[seg]

SegmentIds(l) == 0..Len(BranchSegments(l))

IndexIn(segment, st) == CHOOSE i \in 1..Len(segment) : segment[i] = st

OnSegment(l, seg, st) == \E i \in 1..Len(SegmentOf(l, seg)) : SegmentOf(l, seg)[i] = st

OnLine(l, st) == \E seg \in SegmentIds(l) : OnSegment(l, seg, st)

\* LineMembership: the lines a station belongs to
GetStationLines(st) == {l \in Lines : OnLine(l, st)}

\* the index on the main Segment of the junction of branch seg
JunctionIndex(l, seg) == IndexIn(MainSegment(l), SegmentOf(l, seg)[1])

\* DirectionScheme: the label of the increasing and of the decreasing sense
IncreasingLabel(l) == IF LineKind(l) = "CIRCULAR" THEN "oeseon" ELSE "hahaeng"

DecreasingLabel(l) == IF LineKind(l) = "CIRCULAR" THEN "naeseon" ELSE "sanghaeng"

IsIncreasing(direction) == direction \in {"hahaeng", "oeseon"}

\* a circular line that settles a tie of the two arcs by the order of the call
DirectionOnSegment_TieByOrder(l, seg, a, b) ==
    LET segment == SegmentOf(l, seg)
        n == Len(segment)
        ia == IndexIn(segment, a)
        ib == IndexIn(segment, b)
    IN  IF seg = 0 /\ LineKind(l) = "CIRCULAR"
        THEN LET clockwise == (ib - ia) % n
                 counter == (ia - ib) % n
             IN  IF clockwise < counter \/ (clockwise = counter /\ ia <= ib)
                 THEN IncreasingLabel(l) ELSE DecreasingLabel(l)
        ELSE IF ib > ia THEN IncreasingLabel(l)
        ELSE IF ib < ia THEN DecreasingLabel(l)
        ELSE None

\* both stations on one Segment
DirectionOnSegment(l, seg, a, b) ==
    LET segment == SegmentOf(l, seg)
        n == Len(segment)
        ia == IndexIn(segment, a)
        ib == IndexIn(segment, b)
    IN  IF seg = 0 /\ LineKind(l) = "CIRCULAR"
        THEN LET clockwise == (ib - ia) % n
                 counter == (ia - ib) % n
             IN  IF clockwise <= counter THEN IncreasingLabel(l) ELSE DecreasingLabel(l)
        ELSE IF ib > ia THEN IncreasingLabel(l)
        ELSE IF ib < ia THEN DecreasingLabel(l)
        ELSE None

\* a on the main Segment, b on branch seg: the path runs through the junction
\* and has a direction only if it is monotonic end to end
DirectionMainToBranch(l, seg, a) ==
    IF IndexIn(MainSegment(l), a) < JunctionIndex(l, seg) THEN IncreasingLabel(l) ELSE None

DirectionBranchToMain(l, seg, b) ==
    IF IndexIn(MainSegment(l), b) < JunctionIndex(l, seg) THEN DecreasingLabel(l) ELSE None

\* find_direction(A, B, line): a direction label, or None
FindDirection(a, b, l) ==
    IF l \notin Lines \/ ~OnLine(l, a) \/ ~OnLine(l, b) THEN None
    ELSE LET shared == {seg \in SegmentIds(l) : OnSegment(l, seg, a) /\ OnSegment(l, seg, b)}
             branchOfA == {seg \in SegmentIds(l) \ {0} : OnSegment(l, seg, a)}
             branchOfB == {seg \in SegmentIds(l) \ {0} : OnSegment(l, seg, b)}
         IN  IF shared # {}
             THEN DirectionOnSegment(l, CHOOSE seg \in shared : \A o \in shared : seg <= o, a, b)
             ELSE IF OnSegment(l, 0, a) /\ branchOfB # {}
             THEN DirectionMainToBranch(l, CHOOSE seg \in branchOfB : TRUE, a)
             ELSE IF OnSegment(l, 0, b) /\ branchOfA # {}
             THEN DirectionBranchToMain(l, CHOOSE seg \in branchOfA : TRUE, b)
             ELSE None

NoCommonLine == [line |-> None, direction |-> None]

\* find_common_line(A, B): (line, direction), or no common line
FindCommonLine(a, b) ==
    LET common == GetStationLines(a) \cap GetStationLines(b)
    IN  IF common = {} THEN NoCommonLine
        ELSE LET l == CHOOSE x \in common : \A y \in common : LineNumber(x) <= LineNumber(y)
                 d == FindDirection(a, b, l)
             IN  IF d = None THEN NoCommonLine ELSE [line |-> l, direction |-> d]

\* the Segment a station is resolved to: the main Segment when it is on it
ResolvedSegment(l, st) ==
    IF OnSegment(l, 0, st) THEN 0 ELSE CHOOSE seg \in SegmentIds(l) : OnSegment(l, seg, st)

\* step 4: on one Segment, the destination is at or beyond the arrival station
\* in the sense of the direction (on the cycle every station is)
DestinationAtOrBeyond(l, seg, arrivalStation, trainDestination, direction) ==
    LET segment == SegmentOf(l, seg)
        ia == IndexIn(segment, arrivalStation)
        id == IndexIn(segment, trainDestination)
    IN  IF seg = 0 /\ LineKind(l) = "CIRCULAR" THEN TRUE
        ELSE IF IsIncreasing(direction) THEN id >= ia ELSE id <= ia

\* train_reaches_station(line, arrivalStation, trainDestination, direction)
TrainReachesStation(l, arrivalStation, trainDestination, direction) ==
    IF l \notin Lines \/ ~OnLine(l, trainDestination) \/ ~OnLine(l, arrivalStation)
    THEN TRUE
    ELSE LET shared == {seg \in SegmentIds(l) :
                           OnSegment(l, seg, arrivalStation) /\ OnSegment(l, seg, trainDestination)}
             sa == ResolvedSegment(l, arrivalStation)
             sd == ResolvedSegment(l, trainDestination)
         IN  IF shared # {}
             THEN DestinationAtOrBeyond(l, CHOOSE seg \in shared : \A o \in shared : seg <= o,
                                        arrivalStation, trainDestination, direction)
             ELSE IF sa = 0
             \* the train ends on a branch, the station is on the main Segment
             THEN IsIncreasing(direction)
                  /\ IndexIn(MainSegment(l), arrivalStation) <= JunctionIndex(l, sd)
             ELSE IF sd = 0
             \* the train ends on the main Segment, the station is on a branch
             THEN ~IsIncreasing(direction)
                  /\ IndexIn(MainSegment(l), trainDestination) <= JunctionIndex(l, sa)
             ELSE FALSE

-----------------------------------------------------------------------------
(* bot.py: query_route *)

MaxArrivals == 2

\* `if x:` / `if not x:` on an optional string
Truthy(x) == x # None /\ x # ""

\* `line_name in a.line_name`: among the line names that occur here none is a
\* proper part of another, so the substring test is equality
LineNameIn(line_name, name) == line_name = name

\* a direction filter that keeps every arrival
FilterByDirection_KeepAll(arrivals, direction) == arrivals

\* subway_api.filter_by_direction
FilterByDirection(arrivals, direction) ==
    LET Keep(a) == a.direction = direction IN SelectSeq(arrivals, Keep)

\* the reachability filter applied to the station of departure
ReachFilter_FromDeparture(list, req, line_name, direction) ==
    LET Keep(a) == TrainReachesStation(line_name, req.departure, a.destination, direction)
    IN  SelectSeq(list, Keep)

\* "Filter out trains that terminate before the arrival station"
ReachFilter(list, req, line_name, direction) ==
    LET Keep(a) == TrainReachesStation(line_name, req.arrival, a.destination, direction)
    IN  SelectSeq(list, Keep)

\* the line and direction query_route settles on before it fetches anything
ResolveRoute(req) ==
    IF Truthy(req.line)
    THEN LET d == FindDirection(req.departure, req.arrival, req.line)
         IN  IF ~Truthy(d) THEN [reply |-> "no_direction", line |-> None, direction |-> None]
             ELSE [reply |-> "ok", line |-> req.line, direction |-> d]
    ELSE LET r == FindCommonLine(req.departure, req.arrival)
         IN  IF r = NoCommonLine THEN [reply |-> "no_common_line", line |-> None, direction |-> None]
             ELSE [reply |-> "ok", line |-> r.line, direction |-> r.direction]

NoListing(reply, line_name, direction) ==
    [reply |-> reply, line_name |-> line_name, direction |-> direction,
     arrivals |-> <<>>, filtered |-> <<>>, listed |-> <<>>]

\* query_route, given the provider's answer to its one real-time fetch
QueryRouteResult(req, resp) ==
    LET r == ResolveRoute(req)
    IN  IF r.reply # "ok" THEN NoListing(r.reply, None, None)
        ELSE
        LET line_name == r.line
            direction == IF Truthy(req.dir_override) THEN req.dir_override ELSE r.direction
            arrivals == GetRealtimeArrivalsResult(resp)
            OnLineName(a) == LineNameIn(line_name, a.line_name)
            byLine == SelectSeq(arrivals, OnLineName)
            byDirection == FilterByDirection(byLine, direction)
            filtered1 == IF byDirection # <<>> THEN byDirection ELSE byLine
            ToDestination(a) == a.destination = req.dest_override
            filtered2 == IF Truthy(req.dest_override)
                         THEN SelectSeq(filtered1, ToDestination) ELSE filtered1
        IN  IF arrivals = <<>> THEN NoListing("no_arrivals", line_name, direction)
            ELSE [reply |-> "listed", line_name |-> line_name, direction |-> direction,
                  arrivals |-> arrivals, filtered |-> filtered2,
                  listed |-> ReachFilter(filtered2, req, line_name, direction)]

RouteRow(id, updn, dest) ==
    [subwayId |-> id, updnLine |-> updn, bstatnNm |-> dest,
     arvlMsg2 |-> JEONYEOK_CHULBAL, barvlDt |-> JStr(<<"4", "5">>)]

RouteRows ==
    { RouteRow(id, updn, dest) :
        id \in {"1001", "1005"}, updn \in {"sanghaeng", "hahaeng"}, dest \in {"J", "L", "E", "X"} }

RouteResponses ==
    { [transport |-> "ok", errorStatus |-> None, realtimeArrivalList |-> l] :
        l \in SeqsUpTo(RouteRows, MaxArrivals) }
    \cup { [transport |-> "exception", errorStatus |-> None, realtimeArrivalList |-> <<>>] }

RouteRequests ==
    { [departure |-> d, arrival |-> a, line |-> l, dir_override |-> o, dest_override |-> t] :
        d \in {"B", "C"}, a \in {"J", "L", "E", "D", "F"}, l \in {None, "5hoseon"},
        o \in {None, "sanghaeng"}, t \in {None, "J"} }

NoRequest ==
    [departure |-> None, arrival |-> None, line |-> None,
     dir_override |-> None, dest_override |-> None]

RouteInit ==
    /\ routePc = "idle"
    /\ routeReq = NoRequest
    /\ routeOut = NoListing("none", None, None)

\* find_common_line is called for two stations
CallFindCommonLine ==
    /\ routePc = "idle"
    /\ \E a \in Stations, b \in Stations :
          /\ routeReq' = [NoRequest EXCEPT !.departure = a, !.arrival = b]
          /\ routeOut' = LET r == FindCommonLine(a, b)
                         IN  NoListing("common_line", r.line, r.direction)
    /\ routePc' = "resolved"
    /\ UNCHANGED <<rankVars, ttVars, frCodeCache, cacheVars, handlerVars, boundaryVars, weekdayVars, presetVars>>

\* query_route runs for one request and one provider response
QueryRoute ==
    /\ routePc = "idle"
    /\ \E req \in RouteRequests, resp \in RouteResponses :
          /\ routeReq' = req
          /\ routeOut' = QueryRouteResult(req, resp)
    /\ routePc' = "done"
    /\ UNCHANGED <<rankVars, ttVars, frCodeCache, cacheVars, handlerVars, boundaryVars, weekdayVars, presetVars>>

RouteNext == CallFindCommonLine \/ QueryRoute

-----------------------------------------------------------------------------
(* timetable_api.py: time strings and the two schedule fetches *)

\* the code point order of the characters of a time string: "0" < ... < "9" < ":"
CharCode(c) == IF c = ":" THEN 58 ELSE 48 + DigitVal(c)

\* Python's a < b on strings
StrLess(a, b) ==
    \E k \in 1..(Len(a) + 1) :
        /\ k <= Len(b)
        /\ \A i \in 1..(k - 1) : a[i] = b[i]
        /\ k = Len(a) + 1 \/ CharCode(a[k]) < CharCode(b[k])

StrLeq(a, b) == a = b \/ StrLess(a, b)

\* _norm_time: a 6-digit HHMMSS string gets its colons, None and "" become "",
\* anything else is passed through
NormTime(t) ==
    IF t.t # "str" \/ t.v = <<>> THEN <<>>
    ELSE IF Len(t.v) = 6 /\ ~Contains(t.v, <<":">>)
    THEN SubSeq(t.v, 1, 2) \o <<":">> \o SubSeq(t.v, 3, 4) \o <<":">> \o SubSeq(t.v, 5, 6)
    ELSE t.v

\* item.get(name, "") of a string field
StrField(f) == IF f.t = "str" THEN f.v ELSE <<>>

RECURSIVE InsertByDeparture(_, _)
\* one step of the stable sort on departure_time
InsertByDeparture(sorted, x) ==
    IF sorted = <<>> THEN <<x>>
    ELSE IF StrLeq(sorted[Len(sorted)].departure_time, x.departure_time) THEN Append(sorted, x)
    ELSE Append(InsertByDeparture(SubSeq(sorted, 1, Len(sorted) - 1), x), sorted[Len(sorted)])

RECURSIVE SortByDeparture(_)
\* results.sort(key=lambda e: e.departure_time)
SortByDeparture(list) ==
    IF list = <<>> THEN <<>>
    ELSE InsertByDeparture(SortByDeparture(SubSeq(list, 1, Len(list) - 1)), list[Len(list)])

\* the TimetableEntry get_timetable builds from one row
FullEntryOf(item) ==
    [train_no       |-> item.TRAIN_NO,
     destination    |-> item.SUBWAYENAME,
     departure_time |-> StrField(item.LEFTTIME),
     arrival_time   |-> StrField(item.ARRIVETIME),
     is_express     |-> item.EXPRESS_YN \notin {"G", ""}]

\* the TimetableEntry get_timetable_kric builds from one item
KricEntryOf(item) ==
    [train_no       |-> item.trnNo,
     destination    |-> "",
     departure_time |-> NormTime(item.dptTm),
     arrival_time   |-> NormTime(item.arvTm),
     is_express     |-> FALSE]

\* what a fetch comes to: the list it returns, or an exception that leaves it
Returned(list) == [raised |-> FALSE, entries |-> list]

Raised == [raised |-> TRUE, entries |-> <<>>]

\* a fetch that does not look at the status of the answer
GetTimetableResult_StatusUnchecked(p) ==
    IF p.transport \notin {"ok", "status"} THEN Returned(<<>>)
    ELSE IF p.shape # "object" THEN Raised
    ELSE IF ~p.svc THEN Returned(<<>>)
    ELSE Returned(SortByDeparture([i \in 1..Len(p.row) |-> FullEntryOf(p.row[i])]))

\* get_timetable on the provider's answer p: an exception or a status other
\* than 200 give []; a decoded value that is no object has no .get; an object
\* without the service key gives []; else the rows are converted and sorted
GetTimetableResult(p) ==
    IF p.transport # "ok" THEN Returned(<<>>)
    ELSE IF p.shape # "object" THEN Raised
    ELSE IF ~p.svc THEN Returned(<<>>)
    ELSE Returned(SortByDeparture([i \in 1..Len(p.row) |-> FullEntryOf(p.row[i])]))

\* get_timetable_kric with a configured key on the provider's answer p: the
\* header must say "00", the body must be a non-empty list, items without a
\* departure time are skipped, the rest is sorted
GetTimetableKricResult(p) ==
    IF p.transport # "ok" THEN Returned(<<>>)
    ELSE IF p.shape # "object" THEN Raised
    ELSE IF p.resultCode # "00" THEN Returned(<<>>)
    ELSE LET HasDeparture(item) == NormTime(item.dptTm) # <<>>
             kept == SelectSeq(p.body, HasDeparture)
         IN  Returned(SortByDeparture([i \in 1..Len(kept) |-> KricEntryOf(kept[i])]))

\* a truncation that keeps one entry too many
GetUpcomingResult_OneMore(tt, nowStr, n) ==
    LET Later(entry) == StrLeq(nowStr, entry.departure_time)
        later == SelectSeq(tt, Later)
    IN  SubSeq(later, 1, IF n + 1 <= Len(later) THEN n + 1 ELSE Len(later))

\* get_upcoming(timetable, count) at the clock reading nowStr, for count >= 0
GetUpcomingResult(tt, nowStr, n) ==
    LET Later(entry) == StrLeq(nowStr, entry.departure_time)
        later == SelectSeq(tt, Later)
    IN  SubSeq(later, 1, IF n <= Len(later) THEN n ELSE Len(later))

-----------------------------------------------------------------------------
(* The schedule operations' inputs *)

MaxEntries == 3

MaxCount == 2

T(h1, h2, m1, m2) == <<h1, h2, ":", m1, m2, ":", "0", "0">>

\* LEFTTIME as the full-schedule provider sends it
FullTimes ==
    { JStr(T("0", "0", "1", "0")), JStr(T("0", "5", "3", "0")),
      JStr(T("1", "0", "0", "0")), JStr(T("2", "3", "5", "0")) }

\* dptTm as the limited-schedule provider sends it: six digits, five digits
\* (no leading zero), already with colons, or null
KricTimes ==
    { JStr(<<"0", "5", "3", "0", "0", "0">>), JStr(<<"1", "0", "0", "0", "0", "0">>),
      JStr(<<"5", "3", "0", "0", "0">>), JStr(T("2", "3", "5", "0")), JNull }

FullRow(left) ==
    [TRAIN_NO |-> "3001", SUBWAYENAME |-> "ogeum", LEFTTIME |-> left,
     ARRIVETIME |-> left, EXPRESS_YN |-> "G"]

KricItem(dpt) == [trnNo |-> "2001", dptTm |-> dpt, arvTm |-> dpt]

FullPayloads ==
    { [provider |-> "full", transport |-> "ok", shape |-> "object", svc |-> TRUE,
       row |-> l, resultCode |-> "", body |-> <<>>] :
        l \in SeqsUpTo({FullRow(t) : t \in FullTimes}, MaxEntries) }

KricPayloads ==
    { [provider |-> "kric", transport |-> "ok", shape |-> "object", svc |-> FALSE,
       row |-> <<>>, resultCode |-> "00", body |-> l] :
        l \in SeqsUpTo({KricItem(t) : t \in KricTimes}, MaxEntries) }

NoPayload ==
    [provider |-> "none", transport |-> "none", shape |-> "object", svc |-> FALSE,
     row |-> <<>>, resultCode |-> "", body |-> <<>>]

\* the clock readings strftime("%H:%M:%S") gives
Clock == { T("0", "0", "0", "0"), T("0", "6", "0", "0"), T("2", "3", "5", "0") }

TimesInit ==
    /\ ttPc = "idle"
    /\ payload = NoPayload
    /\ timetable = <<>>
    /\ now = T("0", "0", "0", "0")
    /\ count = 0
    /\ upcoming = <<>>

\* get_timetable returns a list for a well-typed payload
GetTimetable ==
    /\ ttPc = "idle"
    /\ \E p \in FullPayloads :
          /\ payload' = p
          /\ timetable' = GetTimetableResult(p).entries
    /\ ttPc' = "fetched"
    /\ UNCHANGED <<now, count, upcoming, rankVars, routeVars, frCodeCache, cacheVars, handlerVars, boundaryVars, weekdayVars, presetVars>>

\* get_timetable_kric returns a list for a well-typed payload
GetTimetableKric ==
    /\ ttPc = "idle"
    /\ \E p \in KricPayloads :
          /\ payload' = p
          /\ timetable' = GetTimetableKricResult(p).entries
    /\ ttPc' = "fetched"
    /\ UNCHANGED <<now, count, upcoming, rankVars, routeVars, frCodeCache, cacheVars, handlerVars, boundaryVars, weekdayVars, presetVars>>

\* get_upcoming is called on a fetched timetable
GetUpcoming ==
    /\ ttPc = "fetched"
    /\ \E t \in Clock, n \in 0..MaxCount :
          /\ now' = t
          /\ count' = n
          /\ upcoming' = GetUpcomingResult(timetable, t, n)
    /\ ttPc' = "upcoming"
    /\ UNCHANGED <<payload, timetable, rankVars, routeVars, frCodeCache, cacheVars, handlerVars, boundaryVars, weekdayVars, presetVars>>

TimesNext == GetTimetable \/ GetTimetableKric \/ GetUpcoming

-----------------------------------------------------------------------------
(* timetable_api.py: the station-code lookup and its cache *)

\* _LINE_NUM_ALIASES: "0Nhoseon" and "Nhoseon" both name "Nhoseon"
NormalizeApiLine(line_num) ==
    CASE line_num = "01hoseon" -> "1hoseon" [] line_num = "02hoseon" -> "2hoseon"
      [] line_num = "03hoseon" -> "3hoseon" [] line_num = "04hoseon" -> "4hoseon"
      [] line_num = "05hoseon" -> "5hoseon" [] line_num = "06hoseon" -> "6hoseon"
      [] line_num = "07hoseon" -> "7hoseon" [] line_num = "08hoseon" -> "8hoseon"
      [] line_num = "09hoseon" -> "9hoseon" [] OTHER -> line_num

InfoRow(line_num, fr_code) == [LINE_NUM |-> line_num, FR_CODE |-> fr_code]

\* the rows SearchInfoBySubwayNameService holds for a station name: static
\* reference data of the provider.  gyodae is on lines 2 and 3, oksu on line 3
\* (behind a row without code), gwanghwamun on line 5, seoul on lines 1 and 4
StationInfoRows(station_name) ==
    CASE station_name = "gyodae" ->
            <<InfoRow("02hoseon", "223"), InfoRow("03hoseon", "330")>>
      [] station_name = "oksu" ->
            <<InfoRow("gyeonguijungangseon", ""), InfoRow("03hoseon", "335")>>
      [] station_name = "gwanghwamun" -> <<InfoRow("05hoseon", "533")>>
      [] station_name = "seoul" ->
            <<InfoRow("01hoseon", "133"), InfoRow("04hoseon", "426")>>
      [] OTHER -> <<>>

\* _lookup_station_info: [] on an exception, on a status other than 200 and when
\* the service key is absent; a decoded value that is no object has no .get
LookupStationInfo(station_name, outcome) ==
    IF outcome = "failed" THEN Returned(<<>>)
    ELSE IF outcome = "malformed" THEN Raised
    ELSE Returned(StationInfoRows(station_name))

LookupOutcomes == {"answered", "failed", "malformed"}

\* a cache keyed by the station name alone
CacheKey_StationOnly(station_name, line_name) == <<station_name, "">>

\* cache_key = (station_name, line_name or "")
CacheKey(station_name, line_name) ==
    <<station_name, IF Truthy(line_name) THEN line_name ELSE "">>

\* the first row with a code whose line passes the filter, or 0
FirstMatchingRow(rows, line_name) ==
    LET matches == {i \in 1..Len(rows) :
                       /\ rows[i].FR_CODE # ""
                       /\ line_name = None \/ NormalizeApiLine(rows[i].LINE_NUM) = line_name}
    IN  IF matches = {} THEN 0 ELSE CHOOSE i \in matches : \A j \in matches : i <= j

NoCode == [fr_code |-> None, line |-> None]

\* get_station_fr_code answered from the cache
CachedAnswer(cache, station_name, line_name) ==
    [fr_code |-> cache[CacheKey(station_name, line_name)],
     line |-> IF Truthy(line_name) THEN line_name ELSE ""]

\* get_station_fr_code after _lookup_station_info returned rows: the answer
FreshAnswer(rows, line_name) ==
    LET i == FirstMatchingRow(rows, line_name)
    IN  IF i = 0 THEN NoCode
        ELSE [fr_code |-> rows[i].FR_CODE, line |-> NormalizeApiLine(rows[i].LINE_NUM)]

\* ... and the cache it leaves
CacheAfter(cache, station_name, line_name, rows) ==
    LET ans == FreshAnswer(rows, line_name)
        k == CacheKey(station_name, line_name)
    IN  IF ans = NoCode THEN cache
        ELSE [x \in DOMAIN cache \cup {k} |-> IF x = k THEN ans.fr_code ELSE cache[x]]

EmptyCache == [x \in {} |-> None]

-----------------------------------------------------------------------------
(* Concurrent get_station_fr_code calls *)

MaxCalls == 2

Calls == 1..MaxCalls

LookupStations == {"gyodae", "oksu", "nowhere"}

LookupLines == {None, "2hoseon", "3hoseon"}

NoArgs == [station_name |-> None, line_name |-> None]

CacheInit ==
    /\ frCodeCache = EmptyCache
    /\ callPc = [c \in Calls |-> "idle"]
    /\ callArgs = [c \in Calls |-> NoArgs]
    /\ callResult = [c \in Calls |-> NoCode]

\* a call starts: it answers from the cache, or awaits _lookup_station_info
CallStart(c) ==
    /\ callPc[c] = "idle"
    /\ \E st \in LookupStations, l \in LookupLines :
          /\ callArgs' = [callArgs EXCEPT ![c] = [station_name |-> st, line_name |-> l]]
          /\ IF CacheKey(st, l) \in DOMAIN frCodeCache
             THEN /\ callPc' = [callPc EXCEPT ![c] = "done"]
                  /\ callResult' = [callResult EXCEPT ![c] = CachedAnswer(frCodeCache, st, l)]
             ELSE /\ callPc' = [callPc EXCEPT ![c] = "waiting"]
                  /\ UNCHANGED callResult
    /\ UNCHANGED <<frCodeCache, rankVars, routeVars, ttVars, handlerVars, boundaryVars, weekdayVars, presetVars>>

\* the awaited lookup completes and the call runs to its return
CallResume(c) ==
    /\ callPc[c] = "waiting"
    /\ \E outcome \in LookupOutcomes :
          LET got == LookupStationInfo(callArgs[c].station_name, outcome)
          IN  IF got.raised
              THEN /\ callPc' = [callPc EXCEPT ![c] = "raised"]
                   /\ UNCHANGED <<frCodeCache, callResult>>
              ELSE /\ callPc' = [callPc EXCEPT ![c] = "done"]
                   /\ callResult' = [callResult EXCEPT ![c] =
                          FreshAnswer(got.entries, callArgs[c].line_name)]
                   /\ frCodeCache' = CacheAfter(frCodeCache, callArgs[c].station_name,
                                                callArgs[c].line_name, got.entries)
    /\ UNCHANGED <<callArgs, rankVars, routeVars, ttVars, handlerVars, boundaryVars, weekdayVars, presetVars>>

CacheNext == \E c \in Calls : CallStart(c) \/ CallResume(c)

-----------------------------------------------------------------------------
(* bot.py: cmd_timetable *)

MaxQueries == 2

\* the count of upcoming trains a section shows
UpcomingShown == 5

SUPPORTED_LINES == {"3hoseon", "4hoseon", "6hoseon", "7hoseon", "8hoseon", "9hoseon"}

KRIC_S1_LINES == {"1hoseon", "2hoseon"}

KRIC_LINES ==
    KRIC_S1_LINES \cup
    {"suinbundangseon", "gyeonguijungangseon", "gyeongchunseon", "seohaeseon",
     "gyeonggangseon", "gonghangcheoldo", "sinbundangseon", "uisinseolseon", "sillimseon"}

ALL_SUPPORTED_LINES == SUPPORTED_LINES \cup KRIC_LINES

\* _KRIC_STATION_CODES, for the stations that occur here; it holds lines 1 and 2 only
KRIC_STATION_CODES ==
    [k \in {<<"seoul", "1hoseon">>, <<"sicheong", "1hoseon">>,
            <<"sicheong", "2hoseon">>, <<"gyodae", "2hoseon">>} |->
        CASE k = <<"seoul", "1hoseon">> -> "150"
          [] k = <<"sicheong", "1hoseon">> -> "151"
          [] k = <<"sicheong", "2hoseon">> -> "201"
          [] k = <<"gyodae", "2hoseon">> -> "223"]

GetStationKricCode(station_name, line_name) ==
    IF <<station_name, line_name>> \in DOMAIN KRIC_STATION_CODES
    THEN KRIC_STATION_CODES[<<station_name, line_name>>] ELSE None

DirectionToCode(direction) == IF direction \in {"sanghaeng", "naeseon"} THEN 1 ELSE 2

DirectionCodeToLabel(code, line_name) ==
    IF line_name = "2hoseon" THEN (IF code = 1 THEN "naeseon" ELSE "oeseon")
    ELSE (IF code = 1 THEN "sanghaeng" ELSE "hahaeng")

\* get_first_last and get_upcoming rendered into one section of the reply
Section(dir_label, tt, nowStr) ==
    IF tt = <<>>
    THEN [label |-> dir_label, placeholder |-> TRUE, first |-> <<>>, last |-> <<>>,
          next |-> <<>>]
    ELSE [label |-> dir_label, placeholder |-> FALSE,
          first |-> tt[1].departure_time, last |-> tt[Len(tt)].departure_time,
          next |-> GetUpcomingResult(tt, nowStr, UpcomingShown)]

\* the support test that is never taken
LineUnsupported_Never(line) == FALSE

\* `if line and line not in timetable_api.ALL_SUPPORTED_LINES`
LineUnsupported(line) == Truthy(line) /\ line \notin ALL_SUPPORTED_LINES

Begin(req) ==
    [pc |-> "start", req |-> req, fr_code |-> None, resolved_line |-> None,
     directions |-> <<>>, parts |-> <<>>, calls |-> <<>>, outcomes |-> <<>>,
     reply |-> None]

\* reply_text and return
Reply(hd, text) == [hd EXCEPT !.pc = "replied", !.reply = text]

\* a limited-provider branch that fetches once per direction code
StartKric_PerDirection(hd, line_name, kric_code) ==
    [hd EXCEPT !.pc = "kric", !.resolved_line = line_name, !.fr_code = kric_code,
               !.directions = << [code |-> 1, label |-> "jeonbanghyang"] >>,
               !.calls = @ \o << [op |-> "kric", station |-> kric_code, dir |-> 1],
                                 [op |-> "kric", station |-> kric_code, dir |-> 2] >>]

\* the handler awaits get_timetable_kric (one call, direction code 1)
StartKric(hd, line_name, kric_code) ==
    [hd EXCEPT !.pc = "kric", !.resolved_line = line_name, !.fr_code = kric_code,
               !.directions = << [code |-> 1,
                                  label |-> IF line_name = "2hoseon" THEN "sunhwan" ELSE "jeonbanghyang"] >>,
               !.calls = Append(@, [op |-> "kric", station |-> kric_code, dir |-> 1])]

\* the (dir_code, dir_label) pairs the fetch loop runs over
DirectionsOf(direction, resolved_line) ==
    IF Truthy(direction)
    THEN << [code |-> DirectionToCode(direction), label |-> direction] >>
    ELSE << [code |-> 1, label |-> DirectionCodeToLabel(1, resolved_line)],
            [code |-> 2, label |-> DirectionCodeToLabel(2, resolved_line)] >>

\* the handler awaits get_timetable for the first direction left
StartFetch(hd) ==
    [hd EXCEPT !.pc = "fetch",
               !.calls = Append(@, [op |-> "fetch", station |-> hd.fr_code,
                                    dir |-> hd.directions[1].code])]

\* lines 331-365: from the (fr_code, resolved_line) pair to the first fetch
AfterResolve(hd, kric_key, fr_code, resolved_line) ==
    IF resolved_line \notin SUPPORTED_LINES
    THEN IF /\ resolved_line \in KRIC_S1_LINES
            /\ kric_key
            /\ GetStationKricCode(hd.req.station, resolved_line) # None
         THEN StartKric(hd, resolved_line, GetStationKricCode(hd.req.station, resolved_line))
         ELSE Reply(hd, "unsupported")
    ELSE StartFetch([hd EXCEPT !.fr_code = fr_code, !.resolved_line = resolved_line,
                               !.directions = DirectionsOf(hd.req.direction, resolved_line)])

\* lines 259-323: from the arguments to the first await or to a reply.  A
\* station code of the limited provider exists for lines 1 and 2 only, so the
\* per-direction loop of lines 307-317 is never entered.
TimetableStartResult(req, kric_key, cache) ==
    LET hd == Begin(req)
    IN  IF LineUnsupported(req.line) THEN Reply(hd, "unsupported")
        ELSE IF req.line \in KRIC_LINES
        THEN IF ~kric_key THEN Reply(hd, "preparing")
             ELSE IF GetStationKricCode(req.station, req.line) = None
             THEN (IF req.line \notin KRIC_S1_LINES THEN Reply(hd, "preparing")
                   ELSE Reply(hd, "code_not_found"))
             ELSE StartKric(hd, req.line, GetStationKricCode(req.station, req.line))
        ELSE IF CacheKey(req.station, req.line) \in DOMAIN cache
        THEN LET ans == CachedAnswer(cache, req.station, req.line)
             IN  AfterResolve(hd, kric_key, ans.fr_code, ans.line)
        ELSE [hd EXCEPT !.pc = "lookup",
                        !.calls = Append(@, [op |-> "lookup", station |-> req.station, dir |-> 0])]

\* what one fetch left behind, for the record
OutcomeOf(r) == [raised |-> r.raised, empty |-> r.entries = <<>>, entries |-> r.entries]

\* lines 361-367 after one fetch returned r: the section, then the next fetch or
\* the reply; an exception leaves the handler and nothing is sent
AfterFetch(hd, r, nowStr) ==
    IF r.raised
    THEN [hd EXCEPT !.pc = "aborted", !.outcomes = Append(@, OutcomeOf(r))]
    ELSE LET shown == [hd EXCEPT !.parts = Append(@, Section(hd.directions[1].label,
                                                            r.entries, nowStr)),
                                 !.outcomes = Append(@, OutcomeOf(r)),
                                 !.directions = Tail(@)]
         IN  IF shown.directions # <<>> THEN StartFetch(shown) ELSE Reply(shown, "timetable")

TimetableStations == {"gyodae", "oksu", "gwanghwamun", "nowhere"}

TimetableLines == {None, "2hoseon", "3hoseon", "5hoseon", "suinbundangseon"}

TimetableDirections == {None, "sanghaeng", "hahaeng"}

TwoRows == <<FullRow(JStr(T("2", "3", "5", "0"))), FullRow(JStr(T("0", "5", "3", "0")))>>

TwoItems ==
    <<KricItem(JStr(<<"2", "3", "5", "0", "0", "0">>)),
      KricItem(JStr(<<"0", "5", "3", "0", "0", "0">>))>>

\* the answers of the full-schedule provider to one fetch: rows, no service
\* key, an exception or timeout, a status other than 200, JSON that is no object
HandlerFullPayloads ==
    { [NoPayload EXCEPT !.provider = "full", !.transport = "ok", !.svc = TRUE, !.row = TwoRows],
      [NoPayload EXCEPT !.provider = "full", !.transport = "ok"],
      [NoPayload EXCEPT !.provider = "full", !.transport = "exception"],
      [NoPayload EXCEPT !.provider = "full", !.transport = "status"],
      [NoPayload EXCEPT !.provider = "full", !.transport = "ok", !.shape = "array"] }

HandlerKricPayloads ==
    { [NoPayload EXCEPT !.provider = "kric", !.transport = "ok", !.resultCode = "00",
                        !.body = TwoItems],
      [NoPayload EXCEPT !.provider = "kric", !.transport = "ok", !.resultCode = "03"],
      [NoPayload EXCEPT !.provider = "kric", !.transport = "exception"],
      [NoPayload EXCEPT !.provider = "kric", !.transport = "ok", !.shape = "array"] }

HandlerInit ==
    /\ kricKey \in BOOLEAN
    /\ handler = [Begin([station |-> None, line |-> None, direction |-> None])
                     EXCEPT !.pc = "idle"]
    /\ queries = 0

\* a /timetable command arrives and runs to its first await or to its reply
TimetableStart ==
    /\ handler.pc \in {"idle", "replied", "aborted"}
    /\ queries < MaxQueries
    /\ \E st \in TimetableStations, l \in TimetableLines, d \in TimetableDirections :
          handler' = TimetableStartResult([station |-> st, line |-> l, direction |-> d],
                                          kricKey, frCodeCache)
    /\ queries' = queries + 1
    /\ UNCHANGED <<kricKey, frCodeCache, rankVars, routeVars, ttVars, cacheVars, boundaryVars, weekdayVars, presetVars>>

\* the awaited get_station_fr_code returns
LookupReturn ==
    /\ handler.pc = "lookup"
    /\ \E outcome \in LookupOutcomes :
          LET got == LookupStationInfo(handler.req.station, outcome)
              ans == FreshAnswer(got.entries, handler.req.line)
          IN  IF got.raised
              THEN /\ handler' = [handler EXCEPT !.pc = "aborted"]
                   /\ UNCHANGED frCodeCache
              ELSE /\ frCodeCache' = CacheAfter(frCodeCache, handler.req.station,
                                                handler.req.line, got.entries)
                   /\ handler' = IF ans = NoCode THEN Reply(handler, "not_found")
                                 ELSE AfterResolve(handler, kricKey, ans.fr_code, ans.line)
    /\ UNCHANGED <<kricKey, queries, rankVars, routeVars, ttVars, cacheVars, boundaryVars, weekdayVars, presetVars>>

\* the awaited get_timetable returns
FetchReturn ==
    /\ handler.pc = "fetch"
    /\ \E p \in HandlerFullPayloads, t \in Clock :
          handler' = AfterFetch(handler, GetTimetableResult(p), t)
    /\ UNCHANGED <<kricKey, queries, frCodeCache, rankVars, routeVars, ttVars, cacheVars, boundaryVars, weekdayVars, presetVars>>

\* the awaited get_timetable_kric returns
KricReturn ==
    /\ handler.pc = "kric"
    /\ \E p \in HandlerKricPayloads, t \in Clock :
          handler' = AfterFetch(handler, GetTimetableKricResult(p), t)
    /\ UNCHANGED <<kricKey, queries, frCodeCache, rankVars, routeVars, ttVars, cacheVars, boundaryVars, weekdayVars, presetVars>>

HandlerNext == TimetableStart \/ LookupReturn \/ FetchReturn \/ KricReturn

-----------------------------------------------------------------------------
(* The provider boundary: one outbound call and the answer it gets *)

\* how the HTTP exchange ends: a decoded body, an exception of the client
\* library (network failure, undecodable body), a timeout, a status other than 200
Transports == {"ok", "exception", "timeout", "status"}

\* the JSON type of the decoded value
Tops == {"object", "array", "null"}

\* the envelope of the payload (errorMessage, the service key, header): of the
\* right type and reporting success, of the right type and reporting failure,
\* absent, null, or a string where an object is expected
Envelopes == {"ok", "failed", "absent", "null", "string"}

\* the row list (realtimeArrivalList, row, body): a list, absent, null, or a
\* non-empty string or object where a list is expected
RowLists == {"list", "absent", "null", "string", "object"}

\* the JSON type of each element of the row list
RowKinds == {"object", "string", "null"}

ProviderAnswers(contents) ==
    { [transport |-> tr, top |-> tp, envelope |-> e, rows |-> rs, row |-> rw, content |-> c] :
        tr \in Transports, tp \in Tops, e \in Envelopes, rs \in RowLists, rw \in RowKinds,
        c \in contents }

\* the rows the code gets to iterate
RowsOf(r) == IF r.rows = "list" THEN r.content ELSE <<>>

\* `for item in raw_list: item.get(...)` goes through: iterating null is a
\* TypeError, the elements of a string or the keys of an object have no .get,
\* nor has a row that is no object
RowsIterable(r) ==
    \/ r.rows = "absent"
    \/ r.rows = "list" /\ (r.row = "object" \/ r.content = <<>>)

EnvelopeStatus(e) == CASE e = "ok" -> "200" [] e = "failed" -> "500" [] OTHER -> None

AsResponse(r) ==
    [transport |-> r.transport, errorStatus |-> EnvelopeStatus(r.envelope),
     realtimeArrivalList |-> RowsOf(r)]

\* get_realtime_arrivals on any answer: what it returns, or that it raises
GetRealtimeArrivalsOutcome(r) ==
    IF r.transport # "ok" THEN Returned(GetRealtimeArrivalsResult(AsResponse(r)))
    ELSE IF r.top # "object" THEN Raised
    ELSE IF r.envelope = "string" THEN Raised
    ELSE IF r.envelope = "failed" THEN Returned(GetRealtimeArrivalsResult(AsResponse(r)))
    ELSE IF ~RowsIterable(r) THEN Raised
    ELSE IF \E i \in 1..Len(RowsOf(r)) : SecondsRaises(RowsOf(r)[i].barvlDt) THEN Raised
    ELSE Returned(GetRealtimeArrivalsResult(AsResponse(r)))

AsFullPayload(r) ==
    [NoPayload EXCEPT !.provider = "full", !.transport = r.transport,
                      !.shape = IF r.top = "object" THEN "object" ELSE "array",
                      !.svc = (r.envelope = "ok"), !.row = RowsOf(r)]

\* get_timetable on any answer; a service key that is absent, null or of a
\* failure answer is falsy
GetTimetableOutcome(r) ==
    IF r.transport # "ok" \/ r.top # "object" \/ r.envelope \in {"failed", "absent", "null"}
    THEN GetTimetableResult(AsFullPayload(r))
    ELSE IF r.envelope = "string" \/ ~RowsIterable(r) THEN Raised
    ELSE GetTimetableResult(AsFullPayload(r))

AsKricPayload(r) ==
    [NoPayload EXCEPT !.provider = "kric", !.transport = r.transport,
                      !.shape = IF r.top = "object" THEN "object" ELSE "array",
                      !.resultCode = CASE r.envelope = "ok" -> "00"
                                       [] r.envelope = "failed" -> "03"
                                       [] OTHER -> "",
                      !.body = RowsOf(r)]

\* get_timetable_kric with a configured key on any answer; a body that is no
\* list counts as empty
GetTimetableKricOutcome(r) ==
    IF r.transport # "ok" \/ r.top # "object" THEN GetTimetableKricResult(AsKricPayload(r))
    ELSE IF r.envelope \in {"null", "string"} THEN Raised
    ELSE IF r.envelope = "ok" /\ r.rows = "list" /\ r.row # "object" /\ r.content # <<>>
    THEN Raised
    ELSE GetTimetableKricResult(AsKricPayload(r))

\* what _lookup_station_info comes to on any answer
LookupKind(r) ==
    IF r.transport # "ok" THEN "failed"
    ELSE IF r.top # "object" \/ r.envelope = "string" THEN "malformed"
    ELSE IF r.envelope # "ok" \/ r.rows \in {"absent", "null"} THEN "failed"
    ELSE "answered"

\* get_station_fr_code on any answer, the cache not holding the key: None is
\* the empty result
GetStationFrCodeOutcome(station_name, line_name, r) ==
    LET got == LookupStationInfo(station_name, LookupKind(r))
        ans == FreshAnswer(got.entries, line_name)
    IN  IF got.raised THEN Raised
        ELSE IF LookupKind(r) = "answered" /\ ~RowsIterable(r) THEN Raised
        ELSE Returned(IF ans = NoCode THEN <<>> ELSE <<ans>>)

\* barvlDt as a provider row can carry it
SecondsFields ==
    { JMissing, JStr(<<>>), JNull, JStr(<<"a", "b">>), JStr(<<"4", "5">>),
      JNum(<<"4", "5">>), JTrue, JList, JOverflow }

ArrivalContents ==
    { <<>> } \cup { <<ProviderRow(JEONYEOK_CHULBAL, f)>> : f \in SecondsFields }
    \cup { <<ProviderRow(JEONYEOK_CHULBAL, JStr(<<"0">>)),
             ProviderRow(DANGYEOK_JINIP, JStr(<<"4", "5">>))>> }

NoExchange ==
    [op |-> "none", station_name |-> None, line_name |-> None,
     resp |-> [transport |-> "none", top |-> "object", envelope |-> "absent",
               rows |-> "absent", row |-> "object", content |-> <<>>]]

BoundaryInit ==
    /\ exchange = NoExchange
    /\ delivered = Returned(<<>>)

\* get_realtime_arrivals is called and the provider answers
CallRealtimeArrivals ==
    /\ exchange.op = "none"
    /\ \E r \in ProviderAnswers(ArrivalContents) :
          /\ exchange' = [NoExchange EXCEPT !.op = "get_realtime_arrivals", !.resp = r]
          /\ delivered' = GetRealtimeArrivalsOutcome(r)
    /\ UNCHANGED <<rankVars, routeVars, ttVars, frCodeCache, cacheVars, handlerVars, weekdayVars, presetVars>>

\* get_station_fr_code is called for a key the cache does not hold
CallStationFrCode ==
    /\ exchange.op = "none"
    /\ \E st \in {"gyodae", "nowhere"}, l \in {None, "3hoseon"} :
          /\ CacheKey(st, l) \notin DOMAIN frCodeCache
          /\ \E r \in ProviderAnswers({StationInfoRows(st)}) :
                /\ exchange' = [op |-> "get_station_fr_code", station_name |-> st,
                                line_name |-> l, resp |-> r]
                /\ delivered' = GetStationFrCodeOutcome(st, l, r)
                /\ frCodeCache' =
                      IF GetStationFrCodeOutcome(st, l, r).raised THEN frCodeCache
                      ELSE CacheAfter(frCodeCache, st, l,
                                      LookupStationInfo(st, LookupKind(r)).entries)
    /\ UNCHANGED <<rankVars, routeVars, ttVars, cacheVars, handlerVars, weekdayVars, presetVars>>

\* get_timetable is called and the provider answers
CallGetTimetable ==
    /\ exchange.op = "none"
    /\ \E r \in ProviderAnswers({<<>>, TwoRows}) :
          /\ exchange' = [NoExchange EXCEPT !.op = "get_timetable", !.resp = r]
          /\ delivered' = GetTimetableOutcome(r)
    /\ UNCHANGED <<rankVars, routeVars, ttVars, frCodeCache, cacheVars, handlerVars, weekdayVars, presetVars>>

\* get_timetable_kric is called with the key configured and the provider answers
CallGetTimetableKric ==
    /\ exchange.op = "none"
    /\ kricKey
    /\ \E r \in ProviderAnswers({<<>>, TwoItems}) :
          /\ exchange' = [NoExchange EXCEPT !.op = "get_timetable_kric", !.resp = r]
          /\ delivered' = GetTimetableKricOutcome(r)
    /\ UNCHANGED <<rankVars, routeVars, ttVars, frCodeCache, cacheVars, handlerVars, weekdayVars, presetVars>>

BoundaryNext ==
    CallRealtimeArrivals \/ CallStationFrCode \/ CallGetTimetable \/ CallGetTimetableKric

-----------------------------------------------------------------------------
(* timetable_api.py: get_weekday_type *)

\* the days the clock runs over; day 0 is a Monday in UTC
MaxDays == 14

HoursPerDay == 24

DaysPerWeek == 7

\* KST = ZoneInfo("Asia/Seoul"): nine hours ahead of UTC, no daylight saving
KstOffsetHours == 9

\* a clock read in UTC
NowKst_Utc(day, hour) == [day |-> day, hour |-> hour]

\* datetime.now(KST): the wall clock of Seoul at a UTC instant
NowKst(day, hour) ==
    IF hour + KstOffsetHours >= HoursPerDay
    THEN [day |-> day + 1, hour |-> hour + KstOffsetHours - HoursPerDay]
    ELSE [day |-> day, hour |-> hour + KstOffsetHours]

\* datetime.weekday(): Monday is 0, Sunday is 6
Weekday(date) == date.day % DaysPerWeek

\* get_weekday_type at a UTC instant
GetWeekdayTypeResult(day, hour) ==
    LET now_ == NowKst(day, hour)
    IN  IF Weekday(now_) = 5 THEN [code |-> 2, label |-> "toyoil"]
        ELSE IF Weekday(now_) = 6 THEN [code |-> 3, label |-> "iryoil/gonghyuil"]
        ELSE [code |-> 1, label |-> "pyeongil"]

NoInstant == [day |-> 0 - 1, hour |-> 0]

WeekdayInit ==
    /\ instant = NoInstant
    /\ weekdayType = [code |-> 0, label |-> None]

\* get_weekday_type is called at some instant
GetWeekdayType ==
    /\ instant = NoInstant
    /\ \E d \in 0..(MaxDays - 1), h \in 0..(HoursPerDay - 1) :
          /\ instant' = [day |-> d, hour |-> h]
          /\ weekdayType' = GetWeekdayTypeResult(d, h)
    /\ UNCHANGED <<rankVars, routeVars, ttVars, frCodeCache, cacheVars, handlerVars, boundaryVars, presetVars>>

WeekdayNext == GetWeekdayType

-----------------------------------------------------------------------------
(* presets.py: the per-user preset store *)

MaxUsers == 2

Users == 1..MaxUsers

PresetNames == {"home", "work"}

\* a Preset; the optional fields are None when not given
PresetOfFields(name, departure, arrival, line, direction, destination) ==
    [name |-> name, departure |-> departure, arrival |-> arrival,
     line |-> line, direction |-> direction, destination |-> destination]

\* the routes a preset is saved for
PresetRoutes ==
    { [departure |-> "gyodae", arrival |-> "oksu", line |-> "3hoseon"],
      [departure |-> "oksu", arrival |-> "gyodae", line |-> None] }

\* what get_preset returns for a name that is not stored
NoPreset == PresetOfFields(None, None, None, None, None, None)

\* json.dump of a field: a string, or null for None
ToJson(x) == IF x = None THEN JNull ELSE JStr(<<x>>)

\* json.load of a field
FromJson(j) == IF j.t = "null" THEN None ELSE j.v[1]

\* asdict(p), as the JSON object written for one preset
AsDict(preset) ==
    [name |-> ToJson(preset.name), departure |-> ToJson(preset.departure),
     arrival |-> ToJson(preset.arrival), line |-> ToJson(preset.line),
     direction |-> ToJson(preset.direction), destination |-> ToJson(preset.destination)]

\* Preset(**p) of a JSON object read back
PresetFromDict(obj) ==
    PresetOfFields(FromJson(obj.name), FromJson(obj.departure), FromJson(obj.arrival),
                   FromJson(obj.line), FromJson(obj.direction), FromJson(obj.destination))

NoFile == [exists |-> FALSE, members |-> <<>>]

\* _load: {} when the user's file does not exist, else the dict of its
\* members, in the order of the file.  A dict is the sequence of its items.
Load(files, user_id) ==
    IF ~files[user_id].exists THEN <<>>
    ELSE [i \in 1..Len(files[user_id].members) |->
             [key |-> files[user_id].members[i].key,
              preset |-> PresetFromDict(files[user_id].members[i].value)]]

\* a store that keeps one file for all users
Save_SharedFile(files, user_id, presets) ==
    [u \in DOMAIN files |->
        [exists |-> TRUE,
         members |-> [i \in 1..Len(presets) |->
                         [key |-> presets[i].key, value |-> AsDict(presets[i].preset)]]]]

\* _save: the user's file is rewritten with the dict
Save(files, user_id, presets) ==
    [files EXCEPT ![user_id] =
        [exists |-> TRUE,
         members |-> [i \in 1..Len(presets) |->
                         [key |-> presets[i].key, value |-> AsDict(presets[i].preset)]]]]

\* name in presets
HasKey(presets, name) == \E i \in 1..Len(presets) : presets[i].key = name

\* presets[name] = preset: an existing key keeps its place, a new one goes last
DictSet(presets, name, preset) ==
    IF HasKey(presets, name)
    THEN [i \in 1..Len(presets) |->
             IF presets[i].key = name THEN [key |-> name, preset |-> preset] ELSE presets[i]]
    ELSE Append(presets, [key |-> name, preset |-> preset])

\* del presets[name]
DictDel(presets, name) ==
    LET Other(item) == item.key # name IN SelectSeq(presets, Other)

\* presets.get(name)
DictGet(presets, name) ==
    IF HasKey(presets, name)
    THEN presets[CHOOSE i \in 1..Len(presets) : presets[i].key = name].preset
    ELSE NoPreset

\* add_preset: the files it leaves
AddPresetResult(files, user_id, name, preset) ==
    Save(files, user_id, DictSet(Load(files, user_id), name, preset))

\* get_preset
GetPresetResult(files, user_id, name) == DictGet(Load(files, user_id), name)

\* delete_preset: what it returns and the files it leaves
DeletePresetResult(files, user_id, name) ==
    IF ~HasKey(Load(files, user_id), name)
    THEN [returned |-> FALSE, files |-> files]
    ELSE [returned |-> TRUE,
          files |-> Save(files, user_id, DictDel(Load(files, user_id), name))]

NoPresetCall ==
    [op |-> "none", user_id |-> 0, name |-> None, preset |-> NoPreset,
     returned |-> FALSE, found |-> NoPreset]

PresetInit ==
    /\ presetFiles = [u \in Users |-> NoFile]
    /\ presetCall = NoPresetCall

AddPreset ==
    /\ \E u \in Users, n \in PresetNames, r \in PresetRoutes :
          LET preset == PresetOfFields(n, r.departure, r.arrival, r.line, None, None)
          IN  /\ presetFiles' = AddPresetResult(presetFiles, u, n, preset)
              /\ presetCall' = [NoPresetCall EXCEPT !.op = "add_preset", !.user_id = u,
                                                    !.name = n, !.preset = preset]
    /\ UNCHANGED <<rankVars, routeVars, ttVars, frCodeCache, cacheVars, handlerVars,
                   boundaryVars, weekdayVars>>

GetPreset ==
    /\ \E u \in Users, n \in PresetNames :
          presetCall' = [NoPresetCall EXCEPT !.op = "get_preset", !.user_id = u, !.name = n,
                                            !.found = GetPresetResult(presetFiles, u, n)]
    /\ UNCHANGED <<presetFiles, rankVars, routeVars, ttVars, frCodeCache, cacheVars,
                   handlerVars, boundaryVars, weekdayVars>>

DeletePreset ==
    /\ \E u \in Users, n \in PresetNames :
          /\ presetFiles' = DeletePresetResult(presetFiles, u, n).files
          /\ presetCall' = [NoPresetCall EXCEPT !.op = "delete_preset", !.user_id = u,
                               !.name = n,
                               !.returned = DeletePresetResult(presetFiles, u, n).returned]
    /\ UNCHANGED <<rankVars, routeVars, ttVars, frCodeCache, cacheVars, handlerVars,
                   boundaryVars, weekdayVars>>

PresetNext == AddPreset \/ GetPreset \/ DeletePreset

-----------------------------------------------------------------------------
(* Specifications *)

Init == RankInit /\ RouteInit /\ TimesInit /\ CacheInit /\ HandlerInit /\ BoundaryInit /\ WeekdayInit /\ PresetInit

SpecRank == Init /\ [][RankNext]_vars

SpecRoute == Init /\ [][RouteNext]_vars

SpecTimes == Init /\ [][TimesNext]_vars

SpecCache == Init /\ [][CacheNext]_vars

SpecTimetable == Init /\ [][HandlerNext]_vars

SpecBoundary == Init /\ [][BoundaryNext]_vars

SpecWeekday == Init /\ [][WeekdayNext]_vars

SpecPresets == Init /\ [][PresetNext]_vars

Next == RankNext \/ RouteNext \/ TimesNext \/ CacheNext \/ HandlerNext \/ BoundaryNext \/ WeekdayNext \/ PresetNext

Spec == Init /\ [][Next]_vars

-----------------------------------------------------------------------------
(* Claims about the rank key and the sorted list *)

AllDigits(m, i, j) == i <= j /\ \A k \in i..j : IsDigit(m[k])

\* a digit run m[i..j] directly followed by beonjjae, then the positions
\* j+3..k-1, then jeonyeok at k
CountPatternAt(m, i, j, k) ==
    /\ 1 <= i /\ j <= Len(m)
    /\ AllDigits(m, i, j)
    /\ OccursAt(m, BEONJJAE, j + 1)
    /\ k >= j + 3
    /\ OccursAt(m, JEONYEOK, k)

\* "<N>beonjjae jeonyeok" with exactly one blank, as the pattern is written
LiteralPatterns(m) ==
    { p \in (1..Len(m)) \X (1..Len(m)) :
        /\ CountPatternAt(m, p[1], p[2], p[2] + 4)
        /\ m[p[2] + 3] = " " }

\* "<N>beonjjae", any run of white space (none included), "jeonyeok"
SpacedPatterns(m) ==
    { p \in (1..Len(m)) \X (1..Len(m)) :
        \E k \in 1..Len(m) :
            /\ CountPatternAt(m, p[1], p[2], k)
            /\ \A q \in (p[2] + 3)..(k - 1) : IsSpace(m[q]) }

\* N of the leftmost occurrence: its whole digit run
LeftmostCount(m, patterns) ==
    LET p == CHOOSE x \in patterns : \A y \in patterns : x[1] <= y[1]
    IN  IntOfDigits(SubSeq(m, p[1], p[2]))

\* the rank key by the stated priority list, over a set of pattern occurrences
RankByCases(a, patterns) ==
    IF a.arrival_seconds > 0 THEN a.arrival_seconds
    ELSE IF patterns # {} THEN LeftmostCount(a.arrival_message, patterns) * 120
    ELSE IF \/ Contains(a.arrival_message, JEONYEOK_CHULBAL)
            \/ Contains(a.arrival_message, JEONYEOK_DOCHAK) THEN 120
    ELSE IF \/ Contains(a.arrival_message, DANGYEOK_JINIP)
            \/ Contains(a.arrival_message, DOCHAK) THEN 0
    ELSE 999 * 120

\* C1 as stated: sort_key is arrival_seconds when positive; otherwise N*120 when
\* the message contains "<N>beonjjae jeonyeok" (one blank); otherwise 120 for
\* jeonyeok chulbal / jeonyeok dochak; otherwise 0 for dangyeok jinip / dochak;
\* otherwise 999*120.
C1_AsStated ==
    rankPc = "key" => key = RankByCases(rec, LiteralPatterns(rec.arrival_message))

\* C1 amended: the same priority list, where the station-count pattern is a run
\* of digits directly followed by beonjjae, any amount of white space (none
\* included) and jeonyeok, and N is the whole digit run of its leftmost occurrence.
C1_SortKeyCases ==
    rankPc = "key" => key = RankByCases(rec, SpacedPatterns(rec.arrival_message))

\* sort_key was read for a record with no seconds whose message holds the
\* station-count pattern without a blank and also a lower-priority keyword
C1_Witness ==
    /\ rankPc = "key"
    /\ rec.arrival_seconds = 0
    /\ rec.arrival_message = <<"3">> \o BEONJJAE \o JEONYEOK \o <<" ", "do", "chak">>
    /\ key = 360

IsSuccessful(resp) ==
    resp.transport = "ok" /\ resp.errorStatus \in {None, "200"}

IndexPermutations(n) ==
    { f \in [1..n -> 1..n] : \A i, j \in 1..n : i # j => f[i] # f[j] }

\* C2: for a successful response the result holds exactly one record per provider
\* row, in ascending order of rank key, and records of equal rank key keep the
\* provider's relative order.
C2_StableSortedAll ==
    (rankPc = "list" /\ IsSuccessful(response)) =>
        LET rows == response.realtimeArrivalList
            n == Len(rows)
        IN  /\ Len(results) = n
            /\ \E f \in IndexPermutations(n) :
                  /\ \A i \in 1..n : results[i] = ArrivalInfoOf(rows[f[i]])
                  /\ \A i, j \in 1..n :
                        i < j => \/ RankByCases(results[i], SpacedPatterns(results[i].arrival_message))
                                      < RankByCases(results[j], SpacedPatterns(results[j].arrival_message))
                                 \/ /\ RankByCases(results[i], SpacedPatterns(results[i].arrival_message))
                                        = RankByCases(results[j], SpacedPatterns(results[j].arrival_message))
                                    /\ f[i] < f[j]

\* a successful response of three rows: an unrecognised message first, then two
\* distinct rows of equal rank key, which come out in provider order before it
C2_Witness ==
    /\ rankPc = "list"
    /\ IsSuccessful(response)
    /\ Len(response.realtimeArrivalList) = 3
    /\ response.realtimeArrivalList[1].arvlMsg2 = <<"un", "haeng">>
    /\ response.realtimeArrivalList[1].barvlDt = JStr(<<"0">>)
    /\ response.realtimeArrivalList[2] = ProviderRow(JEONYEOK_CHULBAL, JStr(<<"0">>))
    /\ response.realtimeArrivalList[3] = ProviderRow(JEONYEOK_DOCHAK, JStr(<<"1", "2", "0">>))
    /\ results[1] = ArrivalInfoOf(response.realtimeArrivalList[2])
    /\ results[2] = ArrivalInfoOf(response.realtimeArrivalList[3])
    /\ results[3] = ArrivalInfoOf(response.realtimeArrivalList[1])

-----------------------------------------------------------------------------
(* Claims about the route resolver *)

OppositeLabels(l, d1, d2) ==
    /\ d1 # d2
    /\ {d1, d2} = {IncreasingLabel(l), DecreasingLabel(l)}

\* a and b lie on the cycle of the circular line l at equal arcs from each other
ArcsTie(l, a, b) ==
    /\ LineKind(l) = "CIRCULAR"
    /\ OnSegment(l, 0, a) /\ OnSegment(l, 0, b)
    /\ LET n == Len(MainSegment(l))
           ia == IndexIn(MainSegment(l), a)
           ib == IndexIn(MainSegment(l), b)
       IN  (ib - ia) % n = (ia - ib) % n

\* the result held in the state, and the result of the call with the stations swapped
Forward == [line |-> routeOut.line_name, direction |-> routeOut.direction]

Backward == FindCommonLine(routeReq.arrival, routeReq.departure)

\* C3 as stated, for two different stations: find_common_line(A,B) and
\* find_common_line(B,A) both report no common line, or yield the same line and
\* opposite direction labels, also when the two arcs of a circular line tie.
C3_AsStated ==
    (routePc = "resolved" /\ routeReq.departure # routeReq.arrival) =>
        \/ Forward = NoCommonLine /\ Backward = NoCommonLine
        \/ /\ Forward.line # None
           /\ Forward.line = Backward.line
           /\ OppositeLabels(Forward.line, Forward.direction, Backward.direction)

\* C3 amended: both report no common line, or yield the same line and opposite
\* labels, except when the two arcs of a circular line have equal length: then
\* both orders yield the same line and the oeseon label.
C3_OrderIndependent ==
    routePc = "resolved" =>
        \/ Forward = NoCommonLine /\ Backward = NoCommonLine
        \/ /\ Forward.line # None
           /\ Forward.line = Backward.line
           /\ IF ArcsTie(Forward.line, routeReq.departure, routeReq.arrival)
              THEN Forward.direction = "oeseon" /\ Backward.direction = "oeseon"
              ELSE OppositeLabels(Forward.line, Forward.direction, Backward.direction)

\* find_common_line has answered for two distinct stations of the cycle that lie
\* at equal arcs from each other
C3_Witness ==
    /\ routePc = "resolved"
    /\ routeReq.departure = "C" /\ routeReq.arrival = "F"
    /\ Forward = [line |-> "2hoseon", direction |-> "oeseon"]
    /\ Backward = [line |-> "2hoseon", direction |-> "oeseon"]

DirectionLabels == {"sanghaeng", "hahaeng", "naeseon", "oeseon"}

CountWithDestination(list, st) ==
    Cardinality({i \in 1..Len(list) : list[i].destination = st})

\* C4: train_reaches_station(line, S, S, direction) is true for every line,
\* direction label and station S of the line (every station is the arrival
\* station of some call), and the reachability filter of query_route keeps
\* every train whose destination is the arrival station.
C4_ReflexiveAtDestination ==
    /\ routePc # "idle" =>
          \A l \in Lines, d \in DirectionLabels :
              OnLine(l, routeReq.arrival) =>
                  TrainReachesStation(l, routeReq.arrival, routeReq.arrival, d)
    /\ (routePc = "done" /\ routeOut.reply = "listed") =>
          CountWithDestination(routeOut.listed, routeReq.arrival)
              = CountWithDestination(routeOut.filtered, routeReq.arrival)

\* query_route listed a train that ends at the arrival station, with the
\* direction overridden against the resolved one, and dropped another train
C4_Witness ==
    /\ routePc = "done" /\ routeOut.reply = "listed"
    /\ routeReq.departure = "B" /\ routeReq.arrival = "J"
    /\ routeReq.dir_override = "sanghaeng"
    /\ CountWithDestination(routeOut.listed, "J") = 1
    /\ Len(routeOut.filtered) = 2
    /\ Len(routeOut.listed) = 1

-----------------------------------------------------------------------------
(* Claims about the schedule lists *)

\* a zero-padded HH:MM:SS string
IsClockString(t) ==
    /\ Len(t) = 8
    /\ t[3] = ":" /\ t[6] = ":"
    /\ \A i \in {1, 2, 4, 5, 7, 8} : IsDigit(t[i])

SecondsOfDay(t) ==
    (IntOfDigits(SubSeq(t, 1, 2)) * 60 + IntOfDigits(SubSeq(t, 4, 5))) * 60
        + IntOfDigits(SubSeq(t, 7, 8))

AscendingDepartures(list) ==
    \A i, j \in 1..Len(list) :
        i < j => StrLeq(list[i].departure_time, list[j].departure_time)

C6_AsStated ==
    ttPc = "fetched" =>
        /\ \A i \in 1..Len(timetable) : IsClockString(timetable[i].departure_time)
        /\ AscendingDepartures(timetable)

-----------------------------------------------------------------------------
(* Claims about the station-code cache *)

\* c is the code a single call for the key k = (station, filter) stores when it
\* runs alone: the code of the first of the station's rows that has one and
\* passes the filter ("" is no filter)
StoredAlone(k, c) ==
    LET rows == StationInfoRows(k[1])
        Passes(i) == /\ rows[i].FR_CODE # ""
                     /\ k[2] = "" \/ NormalizeApiLine(rows[i].LINE_NUM) = k[2]
    IN  \E i \in 1..Len(rows) :
            /\ Passes(i)
            /\ rows[i].FR_CODE = c
            /\ \A j \in 1..(i - 1) : ~Passes(j)

\* C7: under every interleaving of get_station_fr_code calls a key once in the
\* cache stays in it with its code, and the code cached under a key is the one
\* a single call for that key stores alone.
C7_AppendOnlyRaceFree ==
    /\ [](\A k \in DOMAIN frCodeCache : StoredAlone(k, frCodeCache[k]))
    /\ [][\A k \in DOMAIN frCodeCache :
              k \in DOMAIN frCodeCache' /\ frCodeCache'[k] = frCodeCache[k]]_vars

\* two calls for the same key both missed the cache, both looked the station up
\* and both stored: the key holds the code either stores alone
C7_Witness ==
    /\ callPc[1] = "done" /\ callPc[2] = "done"
    /\ callArgs[1] = [station_name |-> "gyodae", line_name |-> None]
    /\ callArgs[2] = callArgs[1]
    /\ callResult[1] = [fr_code |-> "223", line |-> "2hoseon"]
    /\ callResult[2] = callResult[1]
    /\ frCodeCache[<<"gyodae", "">>] = "223"

-----------------------------------------------------------------------------
(* Claims about the timetable command *)

Finished == handler.pc \in {"replied", "aborted"}

IsFetch(call) == call.op = "fetch"

FetchCodes == [i \in 1..Len(SelectSeq(handler.calls, IsFetch)) |->
                  SelectSeq(handler.calls, IsFetch)[i].dir]

\* C8: a /timetable request that names a line outside every provider's lines
\* is answered "unsupported" without any network call having been issued for
\* it; and every "unsupported" answer to a request that named a line was given
\* before any network call.
C8_UnsupportedBeforeIO ==
    /\ (handler.pc # "idle" /\ Truthy(handler.req.line)
            /\ handler.req.line \notin ALL_SUPPORTED_LINES)
         => (handler.pc = "replied" /\ handler.reply = "unsupported" /\ handler.calls = <<>>)
    /\ (handler.reply = "unsupported" /\ Truthy(handler.req.line))
         => handler.calls = <<>>

\* the second command of a chat names line 5 after the first one filled the cache
C8_Witness ==
    /\ queries = 2
    /\ frCodeCache # EmptyCache
    /\ handler.pc = "replied"
    /\ handler.req = [station |-> "gwanghwamun", line |-> "5hoseon", direction |-> None]
    /\ handler.reply = "unsupported"
    /\ handler.calls = <<>>

\* C9 as stated: when a two-direction query of the full-schedule provider has
\* ended and one direction's fetch failed or had no data, both fetches were
\* made, the reply was sent, and it holds one section per direction, the
\* placeholder exactly for the directions without data.
C9_AsStated ==
    (/\ Finished
     /\ handler.resolved_line \in SUPPORTED_LINES
     /\ ~Truthy(handler.req.direction)
     /\ \E i \in 1..Len(handler.outcomes) :
           handler.outcomes[i].raised \/ handler.outcomes[i].empty)
      => /\ handler.reply = "timetable"
         /\ FetchCodes = <<1, 2>>
         /\ Len(handler.parts) = 2
         /\ \A i \in 1..2 :
               handler.parts[i].placeholder <=>
                   (handler.outcomes[i].raised \/ handler.outcomes[i].empty)

\* C10 as stated: a query that has ended on a line of the full-schedule
\* provider issued one fetch with the given direction's code, or the two
\* fetches with codes 1 and 2 when no direction was given.
C10_AsStated ==
    (Finished /\ handler.resolved_line \in SUPPORTED_LINES)
      => FetchCodes = IF Truthy(handler.req.direction)
                      THEN <<DirectionToCode(handler.req.direction)>>
                      ELSE <<1, 2>>

IsScheduleCall(call) == call.op \in {"fetch", "kric"}

ScheduleCalls == SelectSeq(handler.calls, IsScheduleCall)

\* C11: a query that is served by the limited provider (lines 1 and 2, with
\* the key configured and the station's code known) issues one schedule fetch,
\* to that provider with direction code 1, whether or not a direction was
\* given; and every entry the provider's answer was turned into has an empty
\* destination and is not express.
C11_OneFetchNoDirection ==
    handler.resolved_line \in KRIC_S1_LINES =>
        /\ Len(ScheduleCalls) = 1
        /\ ScheduleCalls[1].op = "kric" /\ ScheduleCalls[1].dir = 1
        /\ \A i \in 1..Len(handler.outcomes) :
              \A j \in 1..Len(handler.outcomes[i].entries) :
                  /\ handler.outcomes[i].entries[j].destination = ""
                  /\ handler.outcomes[i].entries[j].is_express = FALSE

\* line 2 at gyodae asked with a direction: one fetch, two entries shown
C11_Witness ==
    /\ handler.pc = "replied" /\ handler.reply = "timetable"
    /\ handler.req = [station |-> "gyodae", line |-> "2hoseon", direction |-> "hahaeng"]
    /\ handler.calls = << [op |-> "kric", station |-> "223", dir |-> 1] >>
    /\ Len(handler.outcomes) = 1
    /\ Len(handler.outcomes[1].entries) = 2
    /\ handler.outcomes[1].entries[1].destination = ""

-----------------------------------------------------------------------------
(* Claims about the provider boundary *)

\* C12: whichever of the four outbound operations is called, when the exchange
\* ends in an exception of the client library, a timeout or a status other
\* than 200, the operation returns the empty result and does not raise.
C12_TransportFailureIsNoData ==
    (exchange.op # "none" /\ exchange.resp.transport # "ok")
        => delivered = Returned(<<>>)

\* the station lookup timed out: None, and nothing cached
C12_Witness ==
    /\ exchange.op = "get_station_fr_code"
    /\ exchange.station_name = "gyodae"
    /\ exchange.resp.transport = "timeout"
    /\ exchange.resp.content = StationInfoRows("gyodae")
    /\ delivered = Returned(<<>>)
    /\ frCodeCache = EmptyCache

\* a payload with a value of the wrong JSON type in one of the places named
Malformed(r) ==
    \/ r.top # "object"
    \/ r.envelope = "string"
    \/ r.rows \in {"null", "string", "object"}
    \/ r.rows = "list" /\ r.row # "object" /\ r.content # <<>>

\* C13 as stated: on a 200 answer with a malformed payload each of the four
\* operations returns the empty result and does not raise.
C13_AsStated ==
    (exchange.op # "none" /\ exchange.resp.transport = "ok" /\ Malformed(exchange.resp))
        => delivered = Returned(<<>>)

\* C14: an answer of the real-time provider whose error envelope reports a
\* status other than 200 gives the empty list, whatever rows it carries; an
\* answer of the limited provider whose header does not report "00" (or has
\* no result code) gives the empty list, and neither raises.
C14_FailureSignalIsNoData ==
    /\ (/\ exchange.op = "get_realtime_arrivals"
        /\ exchange.resp.transport = "ok" /\ exchange.resp.top = "object"
        /\ exchange.resp.envelope = "failed")
         => delivered = Returned(<<>>)
    /\ (/\ exchange.op = "get_timetable_kric"
        /\ exchange.resp.transport = "ok" /\ exchange.resp.top = "object"
        /\ exchange.resp.envelope \in {"failed", "absent"})
         => delivered = Returned(<<>>)

\* a failure envelope beside two well-formed rows: none of them is returned
C14_Witness ==
    /\ exchange.op = "get_realtime_arrivals"
    /\ exchange.resp.transport = "ok" /\ exchange.resp.top = "object"
    /\ exchange.resp.envelope = "failed"
    /\ exchange.resp.rows = "list" /\ exchange.resp.row = "object"
    /\ Len(exchange.resp.content) = 2
    /\ delivered = Returned(<<>>)

\* seconds fields that hold no whole number: missing, empty, null, not
\* numeric, or of a wrong type
NoWholeNumber == { JMissing, JStr(<<>>), JNull, JStr(<<"a", "b">>), JList, JOverflow }

\* C16 as stated: every row whose seconds field holds no whole number is
\* returned as a record with arrival_seconds = 0, and nothing is raised.
C16_AsStated ==
    (/\ exchange.op = "get_realtime_arrivals"
     /\ exchange.resp.transport = "ok" /\ exchange.resp.top = "object"
     /\ exchange.resp.envelope \in {"ok", "absent"}
     /\ exchange.resp.rows = "list" /\ exchange.resp.row = "object"
     /\ \A i \in 1..Len(exchange.resp.content) :
           exchange.resp.content[i].barvlDt \in NoWholeNumber)
      => /\ ~delivered.raised
         /\ Len(delivered.entries) = Len(exchange.resp.content)
         /\ \A i \in 1..Len(delivered.entries) : delivered.entries[i].arrival_seconds = 0

-----------------------------------------------------------------------------
(* Claims about the day type *)

WeekdayNames ==
    <<"monday", "tuesday", "wednesday", "thursday", "friday", "saturday", "sunday">>

\* the name of the calendar day in Seoul at the instant of the call, counted in
\* hours since the Monday the clock starts on
LocalDayName ==
    WeekdayNames[(((instant.day * HoursPerDay + instant.hour + KstOffsetHours)
                      \div HoursPerDay) % DaysPerWeek) + 1]

\* C15: get_weekday_type returns code 2 exactly on a Saturday in Seoul, code 3
\* exactly on a Sunday, code 1 on every other day, and no other code.
C15_DayTypeByLocalDate ==
    instant # NoInstant =>
        /\ weekdayType.code \in {1, 2, 3}
        /\ weekdayType.code = 2 <=> LocalDayName = "saturday"
        /\ weekdayType.code = 3 <=> LocalDayName = "sunday"

\* Saturday 20:00 UTC is already Sunday in Seoul
C15_Witness ==
    /\ instant = [day |-> 5, hour |-> 20]
    /\ LocalDayName = "sunday"
    /\ weekdayType = [code |-> 3, label |-> "iryoil/gonghyuil"]

-----------------------------------------------------------------------------
(* Claims about the rank of particular messages *)

ThirdStationBefore == <<"3">> \o BEONJJAE \o <<" ">> \o JEONYEOK

\* C17 as stated: without seconds, "3 stations before" has key 360 and
\* "arriving at the previous station" has key 0.
C17_AsStated ==
    (rankPc = "key" /\ rec.arrival_seconds = 0) =>
        /\ rec.arrival_message = ThirdStationBefore => key = 360
        /\ rec.arrival_message = JEONYEOK_DOCHAK => key = 0

\* C17: without seconds, "3 stations before" has key 360 and "arriving at the
\* previous station" has key 120, one station away.
C17_ScenarioKeys ==
    (rankPc = "key" /\ rec.arrival_seconds = 0) =>
        /\ rec.arrival_message = ThirdStationBefore => key = 3 * SecondsPerStation
        /\ rec.arrival_message = JEONYEOK_DOCHAK => key = SecondsPerStation

C17_Witness ==
    /\ rankPc = "key"
    /\ rec = [arrival_seconds |-> 0, arrival_message |-> JEONYEOK_DOCHAK]
    /\ key = 120

HasMessage(a, msg) == a.arrival_message = msg

\* C18 as stated: in every list returned, a record with the message "entering
\* this station" has a key at most that of every record with the message
\* "left the previous station".
C18_AsStated ==
    rankPc = "list" =>
        \A i, j \in 1..Len(results) :
            (HasMessage(results[i], DANGYEOK_JINIP) /\ HasMessage(results[j], JEONYEOK_CHULBAL))
                => SortKey(results[i]) <= SortKey(results[j])

\* C18: the same for the records "entering this station" that report no
\* seconds, whose key is 0; one that reports seconds is ranked by them.
C18_EnteringWithoutSeconds ==
    rankPc = "list" =>
        \A i, j \in 1..Len(results) :
            /\ (/\ HasMessage(results[i], DANGYEOK_JINIP)
                /\ results[i].arrival_seconds <= 0
                /\ HasMessage(results[j], JEONYEOK_CHULBAL))
                 => (SortKey(results[i]) = 0 /\ SortKey(results[i]) <= SortKey(results[j])
                     /\ i < j)
            /\ (HasMessage(results[i], DANGYEOK_JINIP) /\ results[i].arrival_seconds > 0)
                 => SortKey(results[i]) = results[i].arrival_seconds

\* the row "entering" came last from the provider and is listed first, before
\* a row "left the previous station" with 45 seconds and one without seconds
C18_Witness ==
    /\ rankPc = "list"
    /\ Len(response.realtimeArrivalList) = 3
    /\ response.realtimeArrivalList[3].arvlMsg2 = DANGYEOK_JINIP
    /\ Len(results) = 3
    /\ results[1] = [results[1] EXCEPT !.arrival_message = DANGYEOK_JINIP, !.arrival_seconds = 0]
    /\ results[2] = [results[2] EXCEPT !.arrival_message = JEONYEOK_CHULBAL, !.arrival_seconds = 45]
    /\ results[3] = [results[3] EXCEPT !.arrival_message = JEONYEOK_CHULBAL, !.arrival_seconds = 0]

-----------------------------------------------------------------------------
(* Claims about answers from the cache *)

\* C19 as stated: two completed get_station_fr_code calls for the same station
\* and line filter that both found a code, one of them answered from the
\* cache the other filled, return the same (station code, resolved line) pair.
C19_AsStated ==
    \A c, d \in Calls :
        (/\ callPc[c] = "done" /\ callPc[d] = "done"
         /\ callArgs[c] = callArgs[d]
         /\ callResult[c] # NoCode /\ callResult[d] # NoCode)
          => callResult[c] = callResult[d]

-----------------------------------------------------------------------------
(* Claims about the trains query_route lists *)

OnResolvedLine(a) == LineNameIn(routeOut.line_name, a.line_name)

InDirection(a) == a.direction = routeOut.direction

SomeArrival(P(_)) == \E i \in 1..Len(routeOut.arrivals) : P(routeOut.arrivals[i])

EveryListed(P(_)) == \A i \in 1..Len(routeOut.listed) : P(routeOut.listed[i])

MatchesLineAndDirection(a) == OnResolvedLine(a) /\ InDirection(a)

ReachesArrival(a) ==
    TrainReachesStation(routeOut.line_name, routeReq.arrival, a.destination, routeOut.direction)

\* what is listed when the direction filter is not applied: the arrivals on
\* the line that pass the destination override and reach the arrival station
ListedWithoutDirection(a) ==
    /\ OnResolvedLine(a)
    /\ Truthy(routeReq.dest_override) => a.destination = routeReq.dest_override
    /\ ReachesArrival(a)

\* C20: every train query_route lists is on the resolved line and reaches the
\* arrival station; when some fetched arrival on the line has the direction in
\* force (resolved, or the override), every listed train has it; and when none
\* has, the listing is the one without the direction filter.
C20_ListedTrains ==
    (routePc = "done" /\ routeOut.reply = "listed") =>
        /\ EveryListed(OnResolvedLine)
        /\ EveryListed(ReachesArrival)
        /\ routeOut.direction =
              (IF Truthy(routeReq.dir_override) THEN routeReq.dir_override
               ELSE ResolveRoute(routeReq).direction)
        /\ SomeArrival(MatchesLineAndDirection) => EveryListed(InDirection)
        /\ ~SomeArrival(MatchesLineAndDirection) =>
              routeOut.listed = SelectSeq(routeOut.arrivals, ListedWithoutDirection)

\* two trains of the line were fetched, one in the direction of travel and one
\* against it, both running to the arrival station: only the first is listed
C20_Witness ==
    /\ routePc = "done" /\ routeOut.reply = "listed"
    /\ ~Truthy(routeReq.dir_override)
    /\ Len(routeOut.arrivals) = 2
    /\ OnResolvedLine(routeOut.arrivals[1]) /\ OnResolvedLine(routeOut.arrivals[2])
    /\ routeOut.arrivals[1].direction # routeOut.arrivals[2].direction
    /\ routeOut.arrivals[1].destination = routeReq.arrival
    /\ routeOut.arrivals[2].destination = routeReq.arrival
    /\ Len(routeOut.listed) = 1
    /\ InDirection(routeOut.listed[1])

\* the presets of every user and name other than the one a call is about are
\* what they were before the call
OtherPresetsKept(user_id, name) ==
    \A u \in Users, n \in PresetNames :
        (u # user_id \/ n # name) =>
            GetPresetResult(presetFiles', u, n) = GetPresetResult(presetFiles, u, n)

\* C21: step by step over any sequence of calls of the preset store:
\* add_preset(u, n, ...) makes get_preset(u, n) the preset just added;
\* delete_preset(u, n) returns True exactly when n was stored for u, leaves
\* get_preset(u, n) at None, and leaves the files as they were when n was not
\* stored; get_preset changes nothing; and no call changes
\* what get_preset returns for another name or another user.  By induction
\* get_preset(u, n) is the preset most recently added under n for u if it was
\* not deleted since, and None otherwise.
C21_PresetStore ==
    [][ LET c == presetCall' IN
        /\ c.op = "add_preset" =>
              /\ GetPresetResult(presetFiles', c.user_id, c.name) = c.preset
              /\ c.preset # NoPreset
              /\ OtherPresetsKept(c.user_id, c.name)
        /\ c.op = "delete_preset" =>
              /\ c.returned = (GetPresetResult(presetFiles, c.user_id, c.name) # NoPreset)
              /\ GetPresetResult(presetFiles', c.user_id, c.name) = NoPreset
              /\ ~c.returned => presetFiles' = presetFiles
              /\ OtherPresetsKept(c.user_id, c.name)
        /\ c.op = "get_preset" =>
              /\ c.found = GetPresetResult(presetFiles, c.user_id, c.name)
              /\ presetFiles' = presetFiles
      ]_vars

\* user 1 has deleted "home", which was stored after being added twice or
\* once, and still has "work"; user 2 still has a "home" with no line
C21_Witness ==
    /\ presetCall.op = "delete_preset" /\ presetCall.returned
    /\ presetCall.user_id = 1 /\ presetCall.name = "home"
    /\ GetPresetResult(presetFiles, 1, "home") = NoPreset
    /\ GetPresetResult(presetFiles, 1, "work").line = "3hoseon"
    /\ GetPresetResult(presetFiles, 2, "home").departure = "oksu"
    /\ GetPresetResult(presetFiles, 2, "home").line = None

====
